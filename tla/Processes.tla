------------------------------ MODULE Processes ------------------------------
(***************************************************************************)
(* The processes of the server from their launch to their end: main.c,     *)
(* os_daemon of common.c, the handlers of signals.c, and of the start of a *)
(* worker what other processes see, the name of the control socket         *)
(* (reconfig.c) and the port (server.c, acceptor.c).                       *)
(*                                                                         *)
(* A launch has at most three processes: the one that was launched, the    *)
(* one that os_daemon goes on in, and the worker.  The server may be       *)
(* launched again while processes of an earlier launch are alive.          *)
(***************************************************************************)
EXTENDS Integers

CONSTANTS
  Launches,   \* how often the server is launched
  Sent,       \* the signals that are sent to it
  MaxSent,    \* bound: how many are sent
  MaxKills    \* bound: how many processes crash or are killed

ASSUME SentAssumption == Sent \subseteq {"TERM", "INT", "USR1", "USR2"}
ASSUME BoundAssumption ==
  Launches \in Nat /\ MaxSent \in Nat /\ MaxKills \in Nat

Procs == (1 .. Launches) \X {"first", "second", "worker"}
First(l) == <<l, "first">>
Second(l) == <<l, "second">>
Worker(l) == <<l, "worker">>

(* What is not a process of the server: the parent that an orphan gets, a  *)
(* port that is free, one that closed connections keep, and no name.       *)
System == <<0, "system">>
Free == <<0, "free">>
Closing == <<0, "closing">>
Missing == <<0, "missing">>

Signals == {"TERM", "INT", "USR1", "USR2", "CHLD"}

VARIABLES
  mode,      \* mode[l] is "foreground" with -t, which clears cf_daemon
  pc,        \* where the main thread of a process is
  group,     \* its process group, named after its leader
  parent,    \* who waits for it
  blocked,   \* the main thread blocks the signals of the set in main()
  pending,   \* the signals that were sent and not handled
  threads,   \* "none", or whether the threads of the worker block them too
  reconfig,  \* the flag that SIGUSR1 sets
  port,      \* who listens on it: a process, nobody, or connections of one
  name,      \* who "reconfig_socket" leads to
  sent,      \* how many signals were sent
  kills      \* how many processes crashed or were killed

signalVars == <<blocked, pending, threads, reconfig>>
outsideVars == <<sent, kills>>
vars == <<mode, pc, group, parent, signalVars, port, name, outsideVars>>

(* From init_signals to the loops, in the order of the code. *)
Live == {"daemon", "exit", "setsid", "block", "start", "threads",
         "unlink", "bind", "listen", "asleep", "suspend", "woken", "loop"}

Alive(x) == pc[x] \in Live

Init ==
  /\ mode = [l \in 1 .. Launches |-> "none"]
  /\ pc = [x \in Procs |-> "unborn"]
  /\ group = [x \in Procs |-> First(x[1])]
  /\ parent = [x \in Procs |-> System]
  /\ blocked = [x \in Procs |-> FALSE]
  /\ pending = [x \in Procs |-> {}]
  /\ threads = [x \in Procs |-> "none"]
  /\ reconfig = [x \in Procs |-> FALSE]
  /\ port = Free
  /\ name = Missing
  /\ sent = 0
  /\ kills = 0

-----------------------------------------------------------------------------
(* The way of a process through main() *)

Goes(x, next) == pc' = [pc EXCEPT ![x] = next]

(* A slip: the option is kept as it was given. *)
LaunchAsGiven(l) ==
  /\ mode[l] = "none"
  /\ mode' = [mode EXCEPT ![l] = "-t"]
  /\ Goes(First(l), "block")
  /\ UNCHANGED <<group, parent, signalVars, port, name, outsideVars>>

(* After init_signals and os_parse_options. *)
Launch(l) ==
  /\ mode[l] = "none"
  /\ l > 1 => mode[l - 1] # "none"
  /\ \E m \in {"daemon", "foreground"} :
       /\ mode' = [mode EXCEPT ![l] = m]
       /\ Goes(First(l), IF m = "daemon" THEN "daemon" ELSE "block")
  /\ UNCHANGED <<group, parent, signalVars, port, name, outsideVars>>

(* A fork: the child y of x goes on at next, with what it has from x. *)
Fork(x, y, here, next, mask) ==
  /\ pc' = [pc EXCEPT ![x] = here, ![y] = next]
  /\ group' = [group EXCEPT ![y] = group[x]]
  /\ parent' = [parent EXCEPT ![y] = x]
  /\ blocked' = [blocked EXCEPT ![y] = mask]
  /\ reconfig' = [reconfig EXCEPT ![y] = reconfig[x]]
  /\ UNCHANGED <<mode, pending, threads, port, name, outsideVars>>

(* A step that other processes do not see. *)
Passes(x, here, next) ==
  /\ pc[x] = here
  /\ Goes(x, next)
  /\ UNCHANGED <<mode, group, parent, signalVars, port, name, outsideVars>>

(* os_daemon.  Its result is ignored: without a child the process goes on. *)
Daemonize(x) ==
  \/ /\ pc[x] = "daemon"
     /\ Fork(x, Second(x[1]), "exit", "setsid", blocked[x])
  \/ Passes(x, "daemon", "block")

Setsid(x) ==
  /\ pc[x] = "setsid"
  /\ Goes(x, "block")
  /\ group' = [group EXCEPT ![x] = x]
  /\ UNCHANGED <<mode, parent, signalVars, port, name, outsideVars>>

(* config_parse_file and the title of the process, which others do not see, *)
(* and then sigprocmask(SIG_BLOCK).                                        *)
Block(x) ==
  /\ pc[x] = "block"
  /\ Goes(x, "start")
  /\ blocked' = [blocked EXCEPT ![x] = TRUE]
  /\ UNCHANGED <<mode, group, parent, pending, threads, reconfig, port, name, outsideVars>>

(* A slip: the parent takes the result of fork for OS_OK. *)
StartTwice(x) ==
  /\ pc[x] = "start"
  /\ IF mode[x[1]] = "foreground"
     THEN Passes(x, "start", "threads")
     ELSE Fork(x, Worker(x[1]), "threads", "threads", blocked[x])

(* A slip: the worker does not keep the mask of the master. *)
StartOpen(x) ==
  /\ pc[x] = "start"
  /\ IF mode[x[1]] = "foreground"
     THEN Passes(x, "start", "threads")
     ELSE Fork(x, Worker(x[1]), "suspend", "threads", FALSE)

(* os_worker_start: with -t the process itself becomes the worker.  A      *)
(* master that cannot fork goes into its loop without one.                 *)
StartWorker(x) ==
  /\ pc[x] = "start"
  /\ IF mode[x[1]] = "foreground"
     THEN Passes(x, "start", "threads")
     ELSE \/ Fork(x, Worker(x[1]), "suspend", "threads", blocked[x])
          \/ Passes(x, "start", "suspend")

-----------------------------------------------------------------------------
(* worker_process_init *)

(* A slip: the threads do not have the mask of the thread that made them. *)
MakeOpenThreads(x) ==
  /\ pc[x] = "threads"
  /\ Goes(x, "unlink")
  /\ threads' = [threads EXCEPT ![x] = "open"]
  /\ UNCHANGED <<mode, group, parent, blocked, pending, reconfig, port, name, outsideVars>>

(* eventprocessor_init: threads have the mask of the thread that made them. *)
MakeThreads(x) ==
  /\ pc[x] = "threads"
  /\ Goes(x, "unlink")
  /\ threads' = [threads EXCEPT ![x] = IF blocked[x] THEN "masked" ELSE "open"]
  /\ UNCHANGED <<mode, group, parent, blocked, pending, reconfig, port, name, outsideVars>>

(* A slip: the name is removed and not made again. *)
UnlinkOnly(x) ==
  /\ pc[x] = "unlink"
  /\ Goes(x, "listen")
  /\ name' = Missing
  /\ UNCHANGED <<mode, group, parent, signalVars, port, outsideVars>>

(* reconfig_sock_init takes the name away, from whomever it leads to ... *)
Unlink(x) ==
  /\ pc[x] = "unlink"
  /\ Goes(x, "bind")
  /\ name' = Missing
  /\ UNCHANGED <<mode, group, parent, signalVars, port, outsideVars>>

(* ... and gives it to its own socket, unless it exists again. *)
Bind(x) ==
  /\ pc[x] = "bind"
  /\ Goes(x, "listen")
  /\ name' = IF name = Missing THEN x ELSE name
  /\ UNCHANGED <<mode, group, parent, signalVars, port, outsideVars>>

AfterInit(x) == IF mode[x[1]] = "foreground" THEN "suspend" ELSE "asleep"

(* A slip: a worker waits until it gets the port. *)
ListenWaits(x) ==
  /\ pc[x] = "listen"
  /\ port = Free
  /\ Goes(x, AfterInit(x))
  /\ port' = x
  /\ UNCHANGED <<mode, group, parent, signalVars, name, outsideVars>>

(* acceptor_init and protocol_listen_open, which ignores that bind failed: *)
(* SO_REUSEADDR is set only after it, so connections that the last owner   *)
(* has closed keep the port too.                                           *)
Listen(x) ==
  /\ pc[x] = "listen"
  /\ Goes(x, AfterInit(x))
  /\ port' = IF port = Free THEN x ELSE port
  /\ UNCHANGED <<mode, group, parent, signalVars, name, outsideVars>>

-----------------------------------------------------------------------------
(* The end of a process *)

(* What is left when x ends, told being those it sends s to.               *)
(* Its own children are waited for by nobody of the server any more.       *)
Ends(x, told, s) ==
  /\ pc' = [y \in Procs |->
              IF y = x THEN IF parent[x] \in Procs THEN "zombie" ELSE "gone"
              ELSE IF parent[y] = x /\ pc[y] = "zombie" THEN "gone" ELSE pc[y]]
  /\ parent' = [y \in Procs |-> IF parent[y] = x THEN System ELSE parent[y]]
  /\ pending' = [y \in Procs |->
                   IF y = x THEN {}
                   ELSE pending[y] \cup {t \in {s} : y \in told}
                                   \cup {t \in {"CHLD"} : parent[x] = y}]
  /\ port' \in IF port = x THEN {Free, Closing} ELSE {port}
  /\ reconfig' = [reconfig EXCEPT ![x] = FALSE]
  /\ UNCHANGED <<mode, group, blocked, threads, name>>

(* The exit(0) of the process that os_daemon has forked in. *)
StarterExits(x) ==
  /\ pc[x] = "exit"
  /\ Ends(x, {}, "CHLD")
  /\ UNCHANGED outsideVars

(* Signal 9, or a crash at any point. *)
Kill(x) ==
  /\ Alive(x)
  /\ kills < MaxKills
  /\ kills' = kills + 1
  /\ Ends(x, {}, "CHLD")
  /\ UNCHANGED sent

(* The last of the connections that kept the port is forgotten. *)
PortFree ==
  /\ port = Closing
  /\ port' = Free
  /\ UNCHANGED <<mode, pc, group, parent, signalVars, name, outsideVars>>

-----------------------------------------------------------------------------
(* Signals *)

GroupOf(x) == {y \in Procs : Alive(y) /\ group[y] = group[x]}

(* kill(), or a key that is pressed in the terminal of the group. *)
Send(x, s) ==
  /\ Alive(x)
  /\ sent < MaxSent
  /\ sent' = sent + 1
  /\ \E to \in {{x}, GroupOf(x)} :
       pending' = [y \in Procs |-> pending[y] \cup {t \in {s} : y \in to}]
  /\ UNCHANGED <<mode, pc, group, parent, blocked, threads, reconfig, port, name, kills>>

(* The threads that a signal can be delivered to: sigsuspend has the empty *)
(* mask, and may deliver more than one signal before it returns.           *)
Takers(x) ==
  {t \in {"main"} : ~ blocked[x] \/ pc[x] \in {"suspend", "woken"}}
    \cup {t \in {"other"} : threads[x] = "open"}

(* sigsuspend is to return in the thread that a handler has run in. *)
After(x, t) == IF t = "main" /\ pc[x] = "suspend" THEN "woken" ELSE pc[x]

(* sig_term: the group gets the signal too, and the children that have     *)
(* ended are waited for before exit(0).                                    *)
HandleStop(x, s) ==
  /\ Alive(x) /\ s \in pending[x] \cap {"TERM", "INT"}
  /\ Takers(x) # {}
  /\ Ends(x, GroupOf(x), s)
  /\ UNCHANGED outsideVars

(* A slip: sig_child does not wait for a child. *)
NoWait(x) ==
  /\ Alive(x) /\ "CHLD" \in pending[x]
  /\ \E t \in Takers(x) : Goes(x, After(x, t))
  /\ pending' = [pending EXCEPT ![x] = @ \ {"CHLD"}]
  /\ UNCHANGED <<mode, group, parent, blocked, threads, reconfig, port, name, outsideVars>>

(* sig_child: waitpid until there is no child that has ended. *)
HandleChild(x) ==
  /\ Alive(x) /\ "CHLD" \in pending[x]
  /\ \E t \in Takers(x) :
       pc' = [y \in Procs |-> IF y = x THEN After(x, t)
                              ELSE IF parent[y] = x /\ pc[y] = "zombie" THEN "gone"
                              ELSE pc[y]]
  /\ pending' = [pending EXCEPT ![x] = @ \ {"CHLD"}]
  /\ UNCHANGED <<mode, group, parent, blocked, threads, reconfig, port, name, outsideVars>>

(* sig_reconfig; and sig_restart, which sets a flag that nobody reads. *)
HandleUser(x, s) ==
  /\ Alive(x) /\ s \in pending[x] \cap {"USR1", "USR2"}
  /\ \E t \in Takers(x) : Goes(x, After(x, t))
  /\ reconfig' = [reconfig EXCEPT ![x] = @ \/ s = "USR1"]
  /\ pending' = [pending EXCEPT ![x] = @ \ {s}]
  /\ UNCHANGED <<mode, group, parent, blocked, threads, port, name, outsideVars>>

(* A slip: the signals are let through while the loop looks at the flag. *)
ReturnsOpen(x) ==
  /\ pc[x] = "woken"
  /\ Goes(x, "loop")
  /\ blocked' = [blocked EXCEPT ![x] = FALSE]
  /\ UNCHANGED <<mode, group, parent, pending, threads, reconfig, port, name, outsideVars>>

(* sigsuspend returns, and the mask from before it is back. *)
Returns(x) == Passes(x, "woken", "loop")

(* The loop of main(): with reconfig set it notifies, by a write to        *)
(* event_fd, which nobody has opened and nobody reads.                     *)
Loop(x) == Passes(x, "loop", "suspend")

-----------------------------------------------------------------------------
Runs(x) ==
  \/ Daemonize(x) \/ StarterExits(x) \/ Setsid(x) \/ Block(x)
  \/ StartWorker(x) \/ MakeThreads(x) \/ Unlink(x) \/ Bind(x) \/ Listen(x)
  \/ Returns(x) \/ Loop(x)

Handles(x, s) == HandleStop(x, s) \/ (s = "CHLD" /\ HandleChild(x)) \/ HandleUser(x, s)

Next ==
  \/ \E l \in 1 .. Launches : Launch(l)
  \/ \E x \in Procs : Runs(x) \/ Kill(x)
  \/ \E x \in Procs, s \in Sent : Send(x, s)
  \/ \E x \in Procs, s \in Signals : Handles(x, s)
  \/ PortFree

(* The main threads run, and signals that a thread can take are delivered. *)
Spec ==
  /\ Init /\ [][Next]_vars
  /\ \A x \in Procs : WF_vars(Runs(x))
  /\ \A x \in Procs : WF_vars(\E s \in Signals : Handles(x, s))

-----------------------------------------------------------------------------
(* What the code promises *)

TypeOK ==
  /\ mode \in [1 .. Launches -> {"none", "daemon", "foreground"}]
  /\ pc \in [Procs -> Live \cup {"unborn", "zombie", "gone"}]
  /\ group \in [Procs -> Procs]
  /\ parent \in [Procs -> Procs \cup {System}]
  /\ blocked \in [Procs -> BOOLEAN]
  /\ pending \in [Procs -> SUBSET Signals]
  /\ threads \in [Procs -> {"none", "masked", "open"}]
  /\ reconfig \in [Procs -> BOOLEAN]
  /\ port \in Procs \cup {Free, Closing}
  /\ name \in Procs \cup {Missing}
  /\ sent \in 0 .. MaxSent
  /\ kills \in 0 .. MaxKills

Serving(x) == Alive(x) /\ threads[x] # "none"

(***************************************************************************)
(* However its forks end, a launch has at most one process that serves: a  *)
(* daemon's is the worker, never the master that waits for signals, so the *)
(* master has no threads that a signal could find.                         *)
(***************************************************************************)
OneServer ==
  /\ \A x, y \in Procs : x[1] = y[1] /\ Serving(x) /\ Serving(y) => x = y
  /\ \A x \in Procs : Serving(x) /\ mode[x[1]] = "daemon" => x[2] = "worker"

(***************************************************************************)
(* The name of the control socket leads somewhere once a worker has made   *)
(* it, although every launch removes it first: it is missing only while    *)
(* another worker is between unlink and bind, or when one died there.      *)
(***************************************************************************)
NameBound ==
  (\E x \in Procs : Alive(x) /\ pc[x] \in {"listen", "asleep"}) /\ name = Missing =>
    kills > 0 \/ \E y \in Procs : pc[y] = "bind"

(***************************************************************************)
(* The worker of a daemon keeps the port until it is killed: no signal     *)
(* that is sent to it, to its group or to the master, nor the end of the   *)
(* master, takes the port from it, so a second launch does not get it.     *)
(***************************************************************************)
WorkerKeepsPort ==
  [][\A l \in 1 .. Launches :
       port = Worker(l) => port' = port \/ kills' > kills]_vars

Dead(x) == pc[x] \in {"zombie", "gone"}
InLoop(x) == pc[x] \in {"suspend", "woken", "loop"}

(***************************************************************************)
(* A process in the loop of main() does not miss the flag: SIGUSR1 sets it *)
(* only inside sigsuspend, which returns for it.  Neither the mask lets    *)
(* the handler run between two calls of sigsuspend, when the flag may have *)
(* been looked at already, nor does a thread run it while it sleeps on.    *)
(***************************************************************************)
FlagWakes ==
  [][\A x \in Procs :
       InLoop(x) /\ ~ reconfig[x] /\ reconfig'[x] => pc'[x] = "woken"]_vars

(***************************************************************************)
(* What is sent to a process in the loop of main() does not stay pending,  *)
(* also when it is sent between two calls of sigsuspend, and a child that  *)
(* has ended does not stay a zombie while its parent lives.                *)
(***************************************************************************)
SignalsServed ==
  []<>(\A x \in Procs : (InLoop(x) => pending[x] = {}) /\ pc[x] # "zombie")

(* A launch is up when its last process has gone through its init. *)
Up(l) ==
  \/ pc[Worker(l)] = "asleep"
  \/ mode[l] = "foreground" /\ InLoop(First(l))

(* It fails when a process of it ends, the starter's exit(0) aside, or     *)
(* when the master has no worker.                                          *)
Failed(l) ==
  \/ Dead(Second(l)) \/ Dead(Worker(l))
  \/ Dead(First(l)) /\ pc[Second(l)] = "unborn"
  \/ mode[l] = "daemon" /\ pc[Worker(l)] = "unborn"
       /\ (InLoop(First(l)) \/ InLoop(Second(l)))

(***************************************************************************)
(* Every launch comes up or fails, whatever the other launches do: it does *)
(* not wait for a port or a name that another one has.                     *)
(***************************************************************************)
ComesUp ==
  []<>(\A l \in 1 .. Launches : mode[l] # "none" => Up(l) \/ Failed(l))
=============================================================================
