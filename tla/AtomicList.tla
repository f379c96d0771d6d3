----------------------------- MODULE AtomicList ------------------------------
(***************************************************************************)
(* The lock-free list of atomiclist.c, at the grain of its loads, stores   *)
(* and compare-and-swaps.  Its head is one 64-bit word that packs a 48-bit *)
(* pointer and a 16-bit version (atomiclist.h).  push keeps the version,   *)
(* pop and popall add one to it, so that a thread that is suspended inside *)
(* pop notices that items were removed and pushed again meanwhile (ABA).   *)
(*                                                                         *)
(* popall returns the whole chain; its caller then walks it and unlinks    *)
(* one item at a time (thread_event_dequeue in thread.c), which is part of *)
(* this module because it reads and writes the same link fields.           *)
(*                                                                         *)
(* Items are never freed: nothing under src/ frees an event.               *)
(***************************************************************************)
EXTENDS Integers, Sequences

CONSTANTS
  Proc,        \* the threads that share the list
  Poppers,     \* those that call atomic_list_pop (none, in this server)
  Item,        \* the items (events) that are linked
  Null,        \* the NULL pointer
  VersionMod   \* number of versions a head can carry: 2^16 in atomiclist.h

ASSUME PoppersAssumption == Poppers \subseteq Proc
ASSUME NullAssumption    == Null \notin Item
ASSUME VersionAssumption == VersionMod \in Nat \ {0}

VARIABLES
  head,    \* al->head: pointer and version
  next,    \* next[x]: the link field of item x
  pc,      \* pc[p]: the next shared access of thread p
  arg,     \* arg[p]: the item p pushes, has popped, or has reached in its walk
  seen,    \* seen[p]: the head p loaded last (head in push, temp in pop)
  link,    \* link[p]: the successor p read, about to become the head
  ret,     \* ret[p]: what the last call of p returned
  held,    \* held[p]: the items that only p refers to
  lst,     \* auxiliary: the items on the list, changed where a CAS succeeds
  chain,   \* auxiliary: chain[p], what p got from popall and has not walked
  age      \* auxiliary: age[p], removals since p loaded the head in pop

vars == <<head, next, pc, arg, seen, link, ret, held, lst, chain, age>>

Ptr     == Item \cup {Null}
Version == 0 .. VersionMod - 1
HeadP   == [ptr : Ptr, ver : Version]
NoHead  == [ptr |-> Null, ver |-> 0]

(* Slips the runs must notice: the mask or the increment is missing. *)
VersionUnmasked(v)  == v + 1
VersionNotBumped(v) == v

(* ALVERSION(x) + 1, masked to the width of the version field. *)
NextVersion(v) == IF v = VersionMod - 1 THEN 0 ELSE v + 1

InPop == {p \in Proc : pc[p] \in {"pop_next", "pop_cas"}}

(***************************************************************************)
(* The one assumption: while a thread is between its load of the head and  *)
(* its compare-and-swap in pop, fewer than VersionMod removals succeed.    *)
(***************************************************************************)
WithinVersionWindow == \A q \in InPop : age[q] < VersionMod - 1

Older == [q \in Proc |-> IF q \in InPop THEN age[q] + 1 ELSE 0]

(***************************************************************************)
(* After atomic_list_init the list is empty and every item belongs to some *)
(* thread, as an event does that event_schedule has just allocated.        *)
(***************************************************************************)
Init ==
  /\ head = NoHead
  /\ next = [x \in Item |-> Null]
  /\ pc = [p \in Proc |-> "idle"]
  /\ arg = [p \in Proc |-> Null]
  /\ seen = [p \in Proc |-> NoHead]
  /\ link = [p \in Proc |-> Null]
  /\ ret = [p \in Proc |-> Null]
  /\ \E owner \in [Item -> Proc] :
       held = [p \in Proc |-> {x \in Item : owner[x] = p}]
  /\ lst = <<>>
  /\ chain = [p \in Proc |-> <<>>]
  /\ age = [p \in Proc |-> 0]

-----------------------------------------------------------------------------
(* atomic_list_push *)

PushCall(p) ==
  /\ pc[p] = "idle"
  /\ \E x \in held[p] : arg' = [arg EXCEPT ![p] = x]
  /\ pc' = [pc EXCEPT ![p] = "push_load"]
  /\ UNCHANGED <<head, next, seen, link, ret, held, lst, chain, age>>

PushLoad(p) ==
  /\ pc[p] = "push_load"
  /\ seen' = [seen EXCEPT ![p] = head]
  /\ pc' = [pc EXCEPT ![p] = "push_link"]
  /\ UNCHANGED <<head, next, arg, link, ret, held, lst, chain, age>>

(* *addroffset = h: the item is linked before it is published. *)
PushLink(p) ==
  /\ pc[p] = "push_link"
  /\ next' = [next EXCEPT ![arg[p]] = seen[p].ptr]
  /\ pc' = [pc EXCEPT ![p] = "push_cas"]
  /\ UNCHANGED <<head, arg, seen, link, ret, held, lst, chain, age>>

PushCas(p) ==
  /\ pc[p] = "push_cas"
  /\ head = seen[p]
  /\ head' = [ptr |-> arg[p], ver |-> seen[p].ver]
  /\ ret' = [ret EXCEPT ![p] = seen[p].ptr]
  /\ lst' = <<arg[p]>> \o lst
  /\ held' = [held EXCEPT ![p] = @ \ {arg[p]}]
  /\ arg' = [arg EXCEPT ![p] = Null]
  /\ seen' = [seen EXCEPT ![p] = NoHead]
  /\ pc' = [pc EXCEPT ![p] = "idle"]
  /\ UNCHANGED <<next, link, chain, age>>

(* Slips: the loop does not link the item again, or does not load again. *)
PushRetryNoLink(p) ==
  /\ pc[p] = "push_cas"
  /\ head # seen[p]
  /\ seen' = [seen EXCEPT ![p] = head]
  /\ UNCHANGED <<head, next, pc, arg, link, ret, held, lst, chain, age>>

PushRetryNoLoad(p) ==
  /\ pc[p] = "push_cas"
  /\ head # seen[p]
  /\ pc' = [pc EXCEPT ![p] = "push_link"]
  /\ UNCHANGED <<head, next, arg, seen, link, ret, held, lst, chain, age>>

PushRetry(p) ==
  /\ pc[p] = "push_cas"
  /\ head # seen[p]
  /\ pc' = [pc EXCEPT ![p] = "push_load"]
  /\ UNCHANGED <<head, next, arg, seen, link, ret, held, lst, chain, age>>

-----------------------------------------------------------------------------
(* atomic_list_pop *)

PopCall(p) ==
  /\ pc[p] = "idle"
  /\ p \in Poppers
  /\ pc' = [pc EXCEPT ![p] = "pop_load"]
  /\ UNCHANGED <<head, next, arg, seen, link, ret, held, lst, chain, age>>

PopLoad(p) ==
  /\ pc[p] = "pop_load"
  /\ head.ptr # Null
  /\ seen' = [seen EXCEPT ![p] = head]
  /\ age' = [age EXCEPT ![p] = 0]
  /\ pc' = [pc EXCEPT ![p] = "pop_next"]
  /\ UNCHANGED <<head, next, arg, link, ret, held, lst, chain>>

PopEmpty(p) ==
  /\ pc[p] = "pop_load"
  /\ head.ptr = Null
  /\ ret' = [ret EXCEPT ![p] = Null]
  /\ seen' = [seen EXCEPT ![p] = NoHead]
  /\ pc' = [pc EXCEPT ![p] = "idle"]
  /\ UNCHANGED <<head, next, arg, link, held, lst, chain, age>>

(* The link of an item that another thread may own by now. *)
PopReadNext(p) ==
  /\ pc[p] = "pop_next"
  /\ link' = [link EXCEPT ![p] = next[seen[p].ptr]]
  /\ pc' = [pc EXCEPT ![p] = "pop_cas"]
  /\ UNCHANGED <<head, next, arg, seen, ret, held, lst, chain, age>>

PopCas(p) ==
  /\ pc[p] = "pop_cas"
  /\ head = seen[p]
  /\ WithinVersionWindow
  /\ head' = [ptr |-> link[p], ver |-> NextVersion(seen[p].ver)]
  /\ ret' = [ret EXCEPT ![p] = seen[p].ptr]
  /\ arg' = [arg EXCEPT ![p] = seen[p].ptr]
  /\ lst' = Tail(lst)
  /\ age' = [Older EXCEPT ![p] = 0]
  /\ seen' = [seen EXCEPT ![p] = NoHead]
  /\ link' = [link EXCEPT ![p] = Null]
  /\ pc' = [pc EXCEPT ![p] = "pop_clear"]
  /\ UNCHANGED <<next, held, chain>>

(* A slip: the loop loads the head again, and not the link of its item. *)
PopRetryKeepsLink(p) ==
  /\ pc[p] = "pop_cas"
  /\ head # seen[p]
  /\ head.ptr # Null
  /\ seen' = [seen EXCEPT ![p] = head]
  /\ age' = [age EXCEPT ![p] = 0]
  /\ UNCHANGED <<head, next, pc, arg, link, ret, held, lst, chain>>

PopRetry(p) ==
  /\ pc[p] = "pop_cas"
  /\ head # seen[p]
  /\ link' = [link EXCEPT ![p] = Null]
  /\ age' = [age EXCEPT ![p] = 0]
  /\ pc' = [pc EXCEPT ![p] = "pop_load"]
  /\ UNCHANGED <<head, next, arg, seen, ret, held, lst, chain>>

PopClear(p) ==
  /\ pc[p] = "pop_clear"
  /\ next' = [next EXCEPT ![arg[p]] = Null]
  /\ held' = [held EXCEPT ![p] = @ \cup {arg[p]}]
  /\ arg' = [arg EXCEPT ![p] = Null]
  /\ pc' = [pc EXCEPT ![p] = "idle"]
  /\ UNCHANGED <<head, seen, link, ret, lst, chain, age>>

-----------------------------------------------------------------------------
(* atomic_list_popall, and the walk of its caller along the chain *)

PopAllCall(p) ==
  /\ pc[p] = "idle"
  /\ pc' = [pc EXCEPT ![p] = "all_load"]
  /\ UNCHANGED <<head, next, arg, seen, link, ret, held, lst, chain, age>>

PopAllLoad(p) ==
  /\ pc[p] = "all_load"
  /\ head.ptr # Null
  /\ seen' = [seen EXCEPT ![p] = head]
  /\ pc' = [pc EXCEPT ![p] = "all_cas"]
  /\ UNCHANGED <<head, next, arg, link, ret, held, lst, chain, age>>

PopAllEmpty(p) ==
  /\ pc[p] = "all_load"
  /\ head.ptr = Null
  /\ ret' = [ret EXCEPT ![p] = Null]
  /\ seen' = [seen EXCEPT ![p] = NoHead]
  /\ pc' = [pc EXCEPT ![p] = "idle"]
  /\ UNCHANGED <<head, next, arg, link, held, lst, chain, age>>

PopAllCas(p) ==
  /\ pc[p] = "all_cas"
  /\ head = seen[p]
  /\ WithinVersionWindow
  /\ head' = [ptr |-> Null, ver |-> NextVersion(seen[p].ver)]
  /\ ret' = [ret EXCEPT ![p] = seen[p].ptr]
  /\ arg' = [arg EXCEPT ![p] = seen[p].ptr]
  /\ chain' = [chain EXCEPT ![p] = lst]
  /\ lst' = <<>>
  /\ age' = Older
  /\ seen' = [seen EXCEPT ![p] = NoHead]
  /\ pc' = [pc EXCEPT ![p] = "walk"]
  /\ UNCHANGED <<next, link, held>>

PopAllRetry(p) ==
  /\ pc[p] = "all_cas"
  /\ head # seen[p]
  /\ pc' = [pc EXCEPT ![p] = "all_load"]
  /\ UNCHANGED <<head, next, arg, seen, link, ret, held, lst, chain, age>>

(* A slip: the link is read after it was reset. *)
WalkStepLateRead(p) ==
  /\ pc[p] = "walk"
  /\ arg[p] # Null
  /\ arg' = [arg EXCEPT ![p] = Null]
  /\ next' = [next EXCEPT ![arg[p]] = Null]
  /\ held' = [held EXCEPT ![p] = @ \cup {arg[p]}]
  /\ chain' = [chain EXCEPT ![p] = Tail(@)]
  /\ UNCHANGED <<head, pc, seen, link, ret, lst, age>>

(* enext = e->ln.next; e->ln.next = NULL; the item goes to the local queue *)
WalkStep(p) ==
  /\ pc[p] = "walk"
  /\ arg[p] # Null
  /\ arg' = [arg EXCEPT ![p] = next[arg[p]]]
  /\ next' = [next EXCEPT ![arg[p]] = Null]
  /\ held' = [held EXCEPT ![p] = @ \cup {arg[p]}]
  /\ chain' = [chain EXCEPT ![p] = Tail(@)]
  /\ UNCHANGED <<head, pc, seen, link, ret, lst, age>>

WalkDone(p) ==
  /\ pc[p] = "walk"
  /\ arg[p] = Null
  /\ pc' = [pc EXCEPT ![p] = "idle"]
  /\ UNCHANGED <<head, next, arg, seen, link, ret, held, lst, chain, age>>

-----------------------------------------------------------------------------
Call(p) == PushCall(p) \/ PopCall(p) \/ PopAllCall(p)

(* A step inside a call: what a scheduled thread does without its caller. *)
Step(p) ==
  \/ PushLoad(p) \/ PushLink(p) \/ PushCas(p) \/ PushRetry(p)
  \/ PopLoad(p) \/ PopEmpty(p) \/ PopReadNext(p)
  \/ PopCas(p) \/ PopRetry(p) \/ PopClear(p)
  \/ PopAllLoad(p) \/ PopAllEmpty(p) \/ PopAllCas(p) \/ PopAllRetry(p)
  \/ WalkStep(p) \/ WalkDone(p)

Next == \E p \in Proc : Call(p) \/ Step(p)

Spec == Init /\ [][Next]_vars

(* The operating system keeps running every thread that is inside a call. *)
Fairness == \A p \in Proc : WF_vars(Step(p))

FairSpec == Spec /\ Fairness

-----------------------------------------------------------------------------
(* What the code promises *)

TypeOK ==
  /\ head \in HeadP
  /\ next \in [Item -> Ptr]
  /\ pc \in [Proc -> {"idle", "push_load", "push_link", "push_cas",
                      "pop_load", "pop_next", "pop_cas", "pop_clear",
                      "all_load", "all_cas", "walk"}]
  /\ arg \in [Proc -> Ptr]
  /\ seen \in [Proc -> HeadP]
  /\ link \in [Proc -> Ptr]
  /\ ret \in [Proc -> Ptr]
  /\ held \in [Proc -> SUBSET Item]
  /\ lst \in Seq(Item)
  /\ chain \in [Proc -> Seq(Item)]
  /\ age \in [Proc -> 0 .. VersionMod - 1]

First(s)    == IF s = <<>> THEN Null ELSE s[1]
After(s, i) == IF i = Len(s) THEN Null ELSE s[i + 1]
InSeq(s)    == {s[i] : i \in DOMAIN s}

(* ptr points to a chain of links through the items of s, in order. *)
Represents(ptr, s) ==
  /\ ptr = First(s)
  /\ \A i \in DOMAIN s : next[s[i]] = After(s, i)

(***************************************************************************)
(* The links always spell out the items that are on the list: a compare-   *)
(* and-swap of push, pop or popall never publishes a head from which an    *)
(* item that was pushed cannot be reached.                                 *)
(***************************************************************************)
ListShape == Represents(head.ptr, lst)

(***************************************************************************)
(* A thread that has taken a chain with popall can walk it although the    *)
(* list is in use again: nobody else changes the links of that chain.      *)
(***************************************************************************)
ChainShape ==
  \A p \in Proc :
    IF pc[p] = "walk" THEN Represents(arg[p], chain[p]) ELSE chain[p] = <<>>

(* An item that pop has removed is the caller's before its link is reset. *)
Clearing(p) == IF pc[p] = "pop_clear" THEN {arg[p]} ELSE {}

Owned(p) == held[p] \cup InSeq(chain[p]) \cup Clearing(p)

Distinct(s) == \A i, j \in DOMAIN s : s[i] = s[j] => i = j

(***************************************************************************)
(* Exactly one place holds an item: the list, one thread's chain, or one   *)
(* thread's hands.  No interleaving of the three calls loses an event or   *)
(* gives it to two threads.                                                *)
(***************************************************************************)
Conservation ==
  /\ Distinct(lst)
  /\ \A p \in Proc :
       /\ Distinct(chain[p])
       /\ held[p] \cap InSeq(chain[p]) = {}
       /\ (held[p] \cup InSeq(chain[p])) \cap Clearing(p) = {}
       /\ Owned(p) \cap InSeq(lst) = {}
       /\ \A q \in Proc \ {p} : Owned(p) \cap Owned(q) = {}
  /\ \A x \in Item : x \in InSeq(lst) \/ \E p \in Proc : x \in Owned(p)

(***************************************************************************)
(* A compare-and-swap of pop that is about to succeed installs the current *)
(* successor of the top item, however often the item left the list and     *)
(* came back since pop read its link: what the version in head is for.     *)
(***************************************************************************)
PopLinkIsCurrent ==
  \A p \in Proc :
    pc[p] = "pop_cas" /\ head = seen[p] => lst # <<>> /\ link[p] = After(lst, 1)

(* The list implements the stack of SharedStack. *)
Stack == INSTANCE SharedStack
           WITH content <- lst, owned <- [p \in Proc |-> Owned(p)]

(***************************************************************************)
(* Each call takes effect in one step, its successful compare-and-swap or  *)
(* the load that finds the list empty, and returns what the stack returns. *)
(***************************************************************************)
ImplementsStack == Stack!StackSpec

(***************************************************************************)
(* The retry loops are lock-free: a thread is kept inside a call forever   *)
(* only by calls of other threads that succeed.                            *)
(***************************************************************************)
LockFreedom ==
  \A p \in Proc : []<>(pc[p] = "idle") \/ []<><<head' # head>>_vars
=============================================================================
