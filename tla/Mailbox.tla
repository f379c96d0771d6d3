------------------------------- MODULE Mailbox -------------------------------
(***************************************************************************)
(* What processor.c and thread.c promise for accepted connections: each    *)
(* connection is scheduled to one event thread, once, and each event       *)
(* thread handles the connections scheduled to it once each, in the order  *)
(* in which they were scheduled, and never stops doing so.                 *)
(***************************************************************************)
EXTENDS Sequences

CONSTANTS
  Thread,  \* the event threads
  Conn     \* the connections

VARIABLES
  box,      \* box[t]: scheduled to t and not handled, oldest first
  handled   \* handled[t]: what t has handled, in order

mailVars == <<box, handled>>

MailInit ==
  /\ box = [t \in Thread |-> <<>>]
  /\ handled = [t \in Thread |-> <<>>]

In(x, s) == \E i \in DOMAIN s : s[i] = x

Schedule(t, x) ==
  /\ \A u \in Thread : ~ In(x, box[u]) /\ ~ In(x, handled[u])
  /\ box' = [box EXCEPT ![t] = Append(@, x)]
  /\ UNCHANGED handled

Handle(t) ==
  /\ box[t] # <<>>
  /\ handled' = [handled EXCEPT ![t] = Append(@, Head(box[t]))]
  /\ box' = [box EXCEPT ![t] = Tail(@)]

MailNext ==
  \E t \in Thread :
    \/ \E x \in Conn : Schedule(t, x)
    \/ Handle(t)

MailSpec == MailInit /\ [][MailNext]_mailVars

FairMailSpec == MailSpec /\ \A t \in Thread : WF_mailVars(Handle(t))
=============================================================================
