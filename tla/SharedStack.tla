----------------------------- MODULE SharedStack -----------------------------
(***************************************************************************)
(* What atomiclist.c promises to the threads that share an atomiclist: a   *)
(* stack of items on which push, pop and popall each take effect in one    *)
(* step.  An item is either on the stack or owned by exactly one thread;   *)
(* a thread pushes only items it owns, and what it removes it owns.        *)
(* Every call returns the item that was on top just before it took effect, *)
(* Null for an empty stack: push so tells its caller whether the stack was *)
(* empty, pop returns the removed item, popall the first of the chain.     *)
(***************************************************************************)
EXTENDS Sequences

CONSTANTS
  Proc,     \* the threads that share the list
  Poppers,  \* the threads that call atomic_list_pop
  Item,     \* the items (events) that are linked
  Null      \* the NULL pointer

VARIABLES
  content,  \* the items on the stack, most recent first
  owned,    \* owned[p]: the items that belong to thread p
  ret       \* ret[p]: what the last call of thread p returned

stackVars == <<content, owned, ret>>

Top(s) == IF s = <<>> THEN Null ELSE Head(s)

ItemsOf(s) == {s[i] : i \in DOMAIN s}

StackInit ==
  /\ content = <<>>
  /\ owned \in [Proc -> SUBSET Item]
  /\ \A x \in Item : \E p \in Proc : x \in owned[p]
  /\ \A p, q \in Proc : p # q => owned[p] \cap owned[q] = {}
  /\ ret = [p \in Proc |-> Null]

Push(p, x) ==
  /\ x \in owned[p]
  /\ content' = <<x>> \o content
  /\ owned' = [owned EXCEPT ![p] = @ \ {x}]
  /\ ret' = [ret EXCEPT ![p] = Top(content)]

Pop(p) ==
  /\ p \in Poppers
  /\ content' = IF content = <<>> THEN <<>> ELSE Tail(content)
  /\ owned' = [owned EXCEPT ![p] = @ \cup ({Top(content)} \ {Null})]
  /\ ret' = [ret EXCEPT ![p] = Top(content)]

PopAll(p) ==
  /\ content' = <<>>
  /\ owned' = [owned EXCEPT ![p] = @ \cup ItemsOf(content)]
  /\ ret' = [ret EXCEPT ![p] = Top(content)]

StackNext ==
  \E p \in Proc :
    \/ \E x \in Item : Push(p, x)
    \/ Pop(p)
    \/ PopAll(p)

StackSpec == StackInit /\ [][StackNext]_stackVars

(***************************************************************************)
(* No item is lost or handed to two threads: every item is on the stack,   *)
(* once, or owned by exactly one thread.                                   *)
(***************************************************************************)
ItemConserved ==
  /\ \A i, j \in DOMAIN content : content[i] = content[j] => i = j
  /\ \A p \in Proc : owned[p] \cap ItemsOf(content) = {}
  /\ \A p, q \in Proc : p # q => owned[p] \cap owned[q] = {}
  /\ Item = ItemsOf(content) \cup UNION {owned[p] : p \in Proc}
=============================================================================
