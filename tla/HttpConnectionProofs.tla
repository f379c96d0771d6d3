------------------------ MODULE HttpConnectionProofs ------------------------
(***************************************************************************)
(* Proofs about HttpConnection, for a buffer of any size and any number of *)
(* bytes sent.                                                             *)
(***************************************************************************)
EXTENDS HttpConnection, SequenceTheorems, WellFoundedInduction, TLAPS

USE SizeAssumption

-----------------------------------------------------------------------------
(* The least of a set of numbers, and sequences cut in two *)

LEMMA LeastExists ==
  ASSUME NEW T \in SUBSET Nat, T # {}
  PROVE  \E m \in T : \A k \in T : m <= k
<1>1. PICK m \in T : \A k \in T : <<k, m>> \notin OpToRel(<, Nat)
  BY WFMin, NatLessThanWellFounded, Zenon
<1>2. \A k \in T : ~ (k < m)
  BY <1>1, Zenon DEF OpToRel
<1> QED
  BY <1>2

LEMMA MinFacts ==
  ASSUME NEW T \in SUBSET Nat, T # {}
  PROVE  Min(T) \in T /\ \A k \in T : Min(T) <= k
BY LeastExists DEF Min

LEMMA CutFacts ==
  ASSUME NEW S, NEW s \in Seq(S), NEW n \in 0 .. Len(s)
  PROVE  /\ SubSeq(s, 1, n) \in Seq(S) /\ Len(SubSeq(s, 1, n)) = n
         /\ \A i \in 1 .. n : SubSeq(s, 1, n)[i] = s[i]
         /\ SubSeq(s, n + 1, Len(s)) \in Seq(S)
         /\ Len(SubSeq(s, n + 1, Len(s))) = Len(s) - n
         /\ \A i \in 1 .. Len(s) - n : SubSeq(s, n + 1, Len(s))[i] = s[n + i]
OBVIOUS

LEMMA CutJoins ==
  ASSUME NEW S, NEW s \in Seq(S), NEW n \in 0 .. Len(s)
  PROVE  SubSeq(s, 1, n) \o SubSeq(s, n + 1, Len(s)) = s
<1>1. SubSeq(s, 1, n) \o SubSeq(s, n + 1, Len(s)) = SubSeq(s, 1, Len(s))
  <2>1. /\ 1 \in 1 .. Len(s) + 1 /\ n \in 1 - 1 .. Len(s)
        /\ Len(s) \in n .. Len(s)
    BY LenProperties
  <2> QED
    BY <2>1, ConcatAdjacentSubSeq, Zenon
<1> QED
  BY <1>1, SubSeqFull

(* What recv() moves from one sequence to the end of the other. *)
LEMMA MoveKeeps ==
  ASSUME NEW S, NEW t \in Seq(S), NEW s \in Seq(S), NEW n \in 0 .. Len(s)
  PROVE  (t \o SubSeq(s, 1, n)) \o SubSeq(s, n + 1, Len(s)) = t \o s
<1> DEFINE a == SubSeq(s, 1, n)
           b == SubSeq(s, n + 1, Len(s))
<1>1. a \in Seq(S) /\ b \in Seq(S)
  BY CutFacts
<1>2. a \o b = s
  BY CutJoins
<1> HIDE DEF a, b
<1>3. (t \o a) \o b = t \o (a \o b)
  BY <1>1
<1>4. (t \o a) \o b = t \o s
  BY <1>2, <1>3
<1> QED
  BY <1>4 DEF a, b

LEMMA ReceivedFacts ==
  ASSUME NEW n \in Nat, NEW k \in Received(n), sock \in Seq(Byte)
  PROVE  /\ sock # <<>> /\ k \in 0 .. Len(sock) /\ k <= n
         /\ n > 0 => k > 0
<1>1. sock # <<>> /\ k \in Min({1, n}) .. Min({n, Len(sock)})
  BY DEF Received
<1>1a. Len(sock) \in Nat \ {0}
  BY <1>1, EmptySeq
<1>2. Min({1, n}) \in {1, n} /\ Min({1, n}) <= 1 /\ Min({1, n}) <= n
  <2>1. {1, n} \in SUBSET Nat /\ {1, n} # {}
    OBVIOUS
  <2> QED
    BY <2>1, MinFacts
<1>3. /\ Min({n, Len(sock)}) \in {n, Len(sock)}
      /\ Min({n, Len(sock)}) <= n /\ Min({n, Len(sock)}) <= Len(sock)
  <2>1. {n, Len(sock)} \in SUBSET Nat /\ {n, Len(sock)} # {}
    BY <1>1a
  <2> QED
    BY <2>1, MinFacts
<1> QED
  BY <1>1, <1>1a, <1>2, <1>3
-----------------------------------------------------------------------------
(* The inductive invariant *)

(* Which handler is running, and what it has seen. *)
Place ==
  /\ pc = "wait" => handler = "wait"
  /\ pc \in {"read", "parse"} => handler = "line"
  /\ pc # "poll" => conn = "open"
  /\ conn = "closed" => handler = "wait"
  /\ handler = "wait" => buf = <<>> /\ verdicts = <<>>
  /\ handler = "headers" => verdicts # <<>>

(* Before the first verdict everything parsed is part of a line; after it, *)
(* either no further byte can be received or the verdict is on the first   *)
(* byte that decides.                                                      *)
NoneYet == \A k \in 1 .. pos - 1 : buf[k] = "part"

CutOff ==
  /\ \A k \in 1 .. Len(buf) : buf[k] = "part"
  /\ Len(buf) = Size \/ (sock = <<>> /\ peer # "open")

Decided ==
  \E i \in 1 .. Len(sent) :
    /\ sent[i] = verdicts[1] /\ sent[i] # "part"
    /\ \A j \in 1 .. i - 1 : sent[j] = "part"

Cut == {"premature", "error"}

FirstFound ==
  /\ verdicts = <<>> => NoneYet
  /\ verdicts # <<>> /\ verdicts[1] \in Cut => CutOff
  /\ verdicts # <<>> /\ verdicts[1] \notin Cut => Decided

(* The wrong byte is still the first one that the parser will stop at. *)
WrongAhead ==
  \E i \in pos .. Len(buf) :
    buf[i] = "wrong" /\ \A j \in pos .. i - 1 : buf[j] = "part"

StuckAtWrong ==
  \A k \in 1 .. Len(verdicts) :
    verdicts[k] = "wrong" => handler = "line" /\ WrongAhead

LineInv ==
  /\ TypeOK /\ StreamKept /\ NoLostEdge /\ Place
  /\ FirstFound /\ StuckAtWrong /\ RefusalStays

-----------------------------------------------------------------------------
(* The steps *)

LEMMA InitInv == Init => LineInv
<1> SUFFICES ASSUME Init PROVE LineInv
  OBVIOUS
<1> USE EmptySeq DEF Init
<1>1. TypeOK
  BY DEF TypeOK
<1>2. StreamKept
  BY ConcatEmptySeq DEF StreamKept
<1>3. NoLostEdge /\ Place
  BY DEF NoLostEdge, Place
<1>4. FirstFound /\ StuckAtWrong /\ RefusalStays
  BY DEF FirstFound, NoneYet, StuckAtWrong, RefusalStays
<1> QED
  BY <1>1, <1>2, <1>3, <1>4 DEF LineInv

Verdicts == {"wrong", "premature", "error"} \cup Ends

LEMMA VerdictFacts ==
  ASSUME TypeOK, NEW v \in Verdicts, verdicts' = Append(verdicts, v)
  PROVE  /\ verdicts' \in Seq(Verdicts) /\ verdicts' # <<>>
         /\ Len(verdicts') = Len(verdicts) + 1
         /\ \A i \in 1 .. Len(verdicts) : verdicts'[i] = verdicts[i]
         /\ verdicts'[Len(verdicts) + 1] = v
         /\ verdicts'[1] = IF verdicts = <<>> THEN v ELSE verdicts[1]
<1>1. verdicts \in Seq(Verdicts)
  BY DEF TypeOK, Verdicts
<1>2. /\ verdicts' \in Seq(Verdicts) /\ verdicts' # <<>>
      /\ Len(verdicts') = Len(verdicts) + 1
      /\ \A i \in 1 .. Len(verdicts) : verdicts'[i] = verdicts[i]
      /\ verdicts'[Len(verdicts) + 1] = v
  BY <1>1, AppendProperties
<1>3. verdicts'[1] = IF verdicts = <<>> THEN v ELSE verdicts[1]
  <2>1. CASE verdicts = <<>>
    BY <1>2, <2>1, EmptySeq
  <2>2. CASE verdicts # <<>>
    <3>1. Len(verdicts) \in Nat \ {0}
      BY <1>1, <2>2, EmptySeq
    <3> QED
      BY <1>2, <2>2, <3>1
  <2> QED
    BY <2>1, <2>2
<1> QED
  BY <1>2, <1>3

LEMMA StopFacts ==
  ASSUME TypeOK, Stops # {}
  PROVE  /\ Min(Stops) \in pos .. Len(buf)
         /\ buf[Min(Stops)] \in Byte /\ buf[Min(Stops)] # "part"
         /\ \A j \in pos .. Min(Stops) - 1 : buf[j] = "part"
<1>1. Stops \in SUBSET Nat
  BY DEF Stops, TypeOK
<1>2. Min(Stops) \in Stops /\ \A k \in Stops : Min(Stops) <= k
  BY <1>1, MinFacts
<1>3. Min(Stops) \in pos .. Len(buf) /\ buf[Min(Stops)] # "part"
  BY <1>2 DEF Stops
<1>4. buf[Min(Stops)] \in Byte
  BY <1>3 DEF TypeOK
<1>5. ASSUME NEW j \in pos .. Min(Stops) - 1 PROVE buf[j] = "part"
  <2>1. j \in pos .. Len(buf) /\ ~ (Min(Stops) <= j)
    BY <1>3 DEF TypeOK
  <2> QED
    BY <1>2, <2>1 DEF Stops
<1> QED
  BY <1>3, <1>4, <1>5

(* Nothing is left to parse: the buffer has been read to its end. *)
LEMMA UnparsedFacts ==
  ASSUME TypeOK, Unparsed = <<>>
  PROVE  pos = Len(buf) + 1
<1>1. pos \in 1 .. Len(buf) + 1 /\ buf \in Seq(Byte) /\ Len(buf) \in Nat
  BY DEF TypeOK
<1>2. ASSUME pos <= Len(buf) PROVE FALSE
  <2>1. Len(SubSeq(buf, pos, Len(buf))) = Len(buf) - pos + 1
    BY <1>1, <1>2
  <2> QED
    BY <1>1, <1>2, <2>1, EmptySeq DEF Unparsed
<1> QED
  BY <1>1, <1>2

(* The handler that runs, and what it has seen. *)
LEMMA PlaceStep ==
  ASSUME LineInv, [Next]_vars
  PROVE  Place'
<1> USE DEF LineInv, Place
<1>1. ASSUME NEW b \in Byte, Send(b) PROVE Place'
  BY <1>1 DEF Send, clientVars, bufVars
<1>2. ASSUME NEW how \in {"fin", "rst"}, Hangup(how) PROVE Place'
  BY <1>2 DEF Hangup, clientVars, bufVars
<1>3. CASE Dispatch
  BY <1>3 DEF Dispatch, clientVars, bufVars, Return, Verdict
<1>4. CASE WaitRecv
  BY <1>4 DEF WaitRecv, clientVars, bufVars, Return, Verdict
<1>5. CASE WaitAgain
  BY <1>5 DEF WaitAgain, clientVars, bufVars, Return, Verdict
<1>6. CASE WaitClose
  BY <1>6 DEF WaitClose, clientVars, bufVars, Return, Verdict
<1>7. CASE ReadBuffered
  BY <1>7 DEF ReadBuffered, clientVars, bufVars, Return, Verdict
<1>8. CASE ReadRecv
  BY <1>8 DEF ReadRecv, clientVars, bufVars, Return, Verdict
<1>9. CASE ReadAgain
  BY <1>9 DEF ReadAgain, clientVars, bufVars, Return, Verdict
<1>10. CASE ReadEnd
  BY <1>10, VerdictFacts DEF ReadEnd, clientVars, bufVars, Return, Verdict, Verdicts
<1>11. CASE ReadError
  BY <1>11, VerdictFacts DEF ReadError, clientVars, bufVars, Return, Verdict, Verdicts
<1>12. CASE ParseAgain
  BY <1>12 DEF ParseAgain, clientVars, bufVars, Return, Verdict
<1>13. CASE ParseWrong
  BY <1>13, VerdictFacts DEF ParseWrong, clientVars, bufVars, Return, Verdict, Verdicts
<1>14. CASE ParseLine
  BY <1>14, VerdictFacts DEF ParseLine, clientVars, bufVars, Return, Verdict, Verdicts
<1>15. CASE UNCHANGED vars
  BY <1>15 DEF vars
<1> QED
  BY <1>1, <1>2, <1>3, <1>4, <1>5, <1>6, <1>7, <1>8,
     <1>9, <1>10, <1>11, <1>12, <1>13, <1>14, <1>15
     DEF Next, Client, Server

(* A handler returns without a verdict only when nothing is left to read. *)
LEMMA EdgeStep ==
  ASSUME LineInv, [Next]_vars
  PROVE  NoLostEdge'
<1> USE DEF LineInv, NoLostEdge, Place
<1>1. ASSUME NEW b \in Byte, Send(b) PROVE NoLostEdge'
  BY <1>1 DEF Send, clientVars, bufVars
<1>2. ASSUME NEW how \in {"fin", "rst"}, Hangup(how) PROVE NoLostEdge'
  BY <1>2 DEF Hangup, clientVars, bufVars
<1>3. CASE Dispatch
  BY <1>3 DEF Dispatch, clientVars, bufVars, Return, Verdict
<1>4. CASE WaitRecv
  BY <1>4 DEF WaitRecv, clientVars, bufVars, Return, Verdict
<1>5. CASE WaitAgain
  BY <1>5 DEF WaitAgain, clientVars, WouldBlock
<1>6. CASE WaitClose
  BY <1>6 DEF WaitClose, clientVars, bufVars, Return, Verdict
<1>7. CASE ReadBuffered
  BY <1>7 DEF ReadBuffered, clientVars, bufVars, Return, Verdict
<1>8. CASE ReadRecv
  BY <1>8 DEF ReadRecv, clientVars, bufVars, Return, Verdict
<1>9. CASE ReadAgain
  BY <1>9 DEF ReadAgain, clientVars, WouldBlock
<1>10. CASE ReadEnd
  BY <1>10, VerdictFacts DEF ReadEnd, clientVars, bufVars, Return, Verdict, Verdicts
<1>11. CASE ReadError
  BY <1>11, VerdictFacts DEF ReadError, clientVars, bufVars, Return, Verdict, Verdicts
<1>12. CASE ParseAgain
  BY <1>12 DEF ParseAgain, clientVars, bufVars, Return, Verdict
<1>13. CASE ParseWrong
  BY <1>13, VerdictFacts DEF ParseWrong, clientVars, bufVars, Return, Verdict, Verdicts
<1>14. CASE ParseLine
  BY <1>14, VerdictFacts DEF ParseLine, clientVars, bufVars, Return, Verdict, Verdicts
<1>15. CASE UNCHANGED vars
  BY <1>15 DEF vars
<1> QED
  BY <1>1, <1>2, <1>3, <1>4, <1>5, <1>6, <1>7, <1>8,
     <1>9, <1>10, <1>11, <1>12, <1>13, <1>14, <1>15
     DEF Next, Client, Server

(* Types: no read leaves the buffer. *)
LEMMA TypeStep ==
  ASSUME LineInv, [Next]_vars
  PROVE  TypeOK'
<1> USE DEF LineInv, TypeOK, Place
<1>1. ASSUME NEW b \in Byte, Send(b) PROVE TypeOK'
  BY <1>1, AppendProperties DEF Send, bufVars
<1>2. ASSUME NEW how \in {"fin", "rst"}, Hangup(how) PROVE TypeOK'
  BY <1>2 DEF Hangup, clientVars, bufVars
<1>3. CASE Dispatch
  BY <1>3 DEF Dispatch, clientVars, bufVars, Return, Verdict
<1>4. CASE WaitRecv
  <2>1. PICK n \in Received(Size) : Take(n) /\ buf' = SubSeq(sock, 1, n)
    BY <1>4 DEF WaitRecv
  <2>2. n \in 0 .. Len(sock) /\ n <= Size
    BY <2>1, ReceivedFacts
  <2>3. buf' \in Seq(Byte) /\ Len(buf') = n /\ sock' \in Seq(Byte)
    BY <2>1, <2>2, CutFacts DEF Take
  <2> QED
    BY <1>4, <2>2, <2>3 DEF WaitRecv, clientVars
<1>5. CASE WaitAgain
  BY <1>5, EmptySeq DEF WaitAgain, clientVars, Return
<1>6. CASE WaitClose
  BY <1>6, EmptySeq DEF WaitClose, clientVars, bufVars, Return
<1>7. CASE ReadBuffered
  BY <1>7 DEF ReadBuffered, clientVars, bufVars, Return, Verdict
<1>8. CASE ReadRecv
  <2>1. PICK n \in Received(Space) \ {0} :
          Take(n) /\ buf' = buf \o SubSeq(sock, 1, n)
    BY <1>8 DEF ReadRecv
  <2>2. Space \in Nat /\ Len(buf) + Space = Size
    BY DEF Space
  <2>3. n \in 0 .. Len(sock) /\ n <= Space
    BY <2>1, <2>2, ReceivedFacts
  <2>4. SubSeq(sock, 1, n) \in Seq(Byte) /\ Len(SubSeq(sock, 1, n)) = n
        /\ sock' \in Seq(Byte)
    BY <2>1, <2>3, CutFacts DEF Take
  <2>5. buf' \in Seq(Byte) /\ Len(buf') = Len(buf) + n
    BY <2>1, <2>4, ConcatProperties
  <2> QED
    BY <1>8, <2>2, <2>3, <2>4, <2>5 DEF ReadRecv, clientVars
<1>9. CASE ReadAgain
  BY <1>9 DEF ReadAgain, clientVars, bufVars, Return, Verdict
<1>10. CASE ReadEnd
  BY <1>10, VerdictFacts, StopFacts DEF ReadEnd, clientVars, bufVars, Return, Verdict, Verdicts
<1>11. CASE ReadError
  BY <1>11, VerdictFacts, StopFacts DEF ReadError, clientVars, bufVars, Return, Verdict, Verdicts
<1>12. CASE ParseAgain
  BY <1>12 DEF ParseAgain, clientVars, bufVars, Return, Verdict
<1>13. CASE ParseWrong
  BY <1>13, VerdictFacts, StopFacts DEF ParseWrong, clientVars, bufVars, Return, Verdict, Verdicts
<1>14. CASE ParseLine
  BY <1>14, VerdictFacts, StopFacts
     DEF ParseLine, clientVars, bufVars, Return, Verdict, Verdicts, Byte
<1>15. CASE UNCHANGED vars
  BY <1>15 DEF vars
<1> QED
  BY <1>1, <1>2, <1>3, <1>4, <1>5, <1>6, <1>7, <1>8,
     <1>9, <1>10, <1>11, <1>12, <1>13, <1>14, <1>15
     DEF Next, Client, Server

(* Every read moves bytes from the socket to the end of the buffer. *)
LEMMA StreamStep ==
  ASSUME LineInv, [Next]_vars
  PROVE  StreamKept'
<1> USE DEF LineInv, StreamKept, Place
<1>1. ASSUME NEW b \in Byte, Send(b) PROVE StreamKept'
  <2>1. buf \in Seq(Byte) /\ sock \in Seq(Byte)
    BY DEF TypeOK
  <2>2. buf \o Append(sock, b) = Append(buf \o sock, b)
    BY <2>1
  <2> QED
    BY <1>1, <2>2 DEF Send, bufVars
<1>2. ASSUME NEW how \in {"fin", "rst"}, Hangup(how) PROVE StreamKept'
  BY <1>2 DEF Hangup, clientVars, bufVars
<1>3. CASE Dispatch
  BY <1>3 DEF Dispatch, clientVars, bufVars, Return, Verdict
<1>4. CASE WaitRecv
  <2>1. PICK n \in Received(Size) : Take(n) /\ buf' = SubSeq(sock, 1, n)
    BY <1>4 DEF WaitRecv
  <2>2. sock \in Seq(Byte) /\ n \in 0 .. Len(sock)
    BY <2>1, ReceivedFacts DEF TypeOK
  <2>3. buf' \o sock' = sock
    BY <2>1, <2>2, CutJoins DEF Take
  <2>4. conn = "open" => sent = sock
    BY <1>4, <2>2, ConcatEmptySeq DEF WaitRecv
  <2> QED
    BY <1>4, <2>3, <2>4 DEF WaitRecv, clientVars
<1>5. CASE WaitAgain
  BY <1>5 DEF WaitAgain, clientVars, bufVars, Return, Verdict
<1>6. CASE WaitClose
  BY <1>6 DEF WaitClose, clientVars, bufVars, Return, Verdict
<1>7. CASE ReadBuffered
  BY <1>7 DEF ReadBuffered, clientVars, bufVars, Return, Verdict
<1>8. CASE ReadRecv
  <2>1. PICK n \in Received(Space) \ {0} :
          Take(n) /\ buf' = buf \o SubSeq(sock, 1, n)
    BY <1>8 DEF ReadRecv
  <2>2. Space \in Nat
    BY DEF Space, TypeOK
  <2>3. sock \in Seq(Byte) /\ buf \in Seq(Byte) /\ n \in 0 .. Len(sock)
    BY <2>1, <2>2, ReceivedFacts DEF TypeOK
  <2>4. buf' \o sock' = buf \o sock
    BY <2>1, <2>3, MoveKeeps DEF Take
  <2> QED
    BY <1>8, <2>4 DEF ReadRecv, clientVars
<1>9. CASE ReadAgain
  BY <1>9 DEF ReadAgain, clientVars, bufVars, Return, Verdict
<1>10. CASE ReadEnd
  BY <1>10 DEF ReadEnd, clientVars, bufVars, Return, Verdict
<1>11. CASE ReadError
  BY <1>11 DEF ReadError, clientVars, bufVars, Return, Verdict
<1>12. CASE ParseAgain
  BY <1>12 DEF ParseAgain, clientVars, bufVars, Return, Verdict
<1>13. CASE ParseWrong
  BY <1>13 DEF ParseWrong, clientVars, bufVars, Return, Verdict
<1>14. CASE ParseLine
  BY <1>14 DEF ParseLine, clientVars, bufVars, Return, Verdict
<1>15. CASE UNCHANGED vars
  BY <1>15 DEF vars
<1> QED
  BY <1>1, <1>2, <1>3, <1>4, <1>5, <1>6, <1>7, <1>8,
     <1>9, <1>10, <1>11, <1>12, <1>13, <1>14, <1>15
     DEF Next, Client, Server

LEMMA NothingMore ==
  ASSUME TypeOK, CutOff, pc = "read", ReadRecv
  PROVE  FALSE
<1>1. PICK n \in Received(Space) \ {0} : TRUE
  BY DEF ReadRecv
<1>2. Space \in Nat
  BY DEF Space, TypeOK
<1>3. sock # <<>> /\ n \in Nat /\ n <= Space
  BY <1>1, <1>2, ReceivedFacts DEF TypeOK
<1> QED
  BY <1>1, <1>3 DEF CutOff, Space, TypeOK

(* The first byte that the parser stops at decides, also when it has only *)
(* been received in part.                                                  *)
LEMMA StopDecides ==
  ASSUME TypeOK, StreamKept, conn = "open", NoneYet, Stops # {}
  PROVE  \E i \in 1 .. Len(sent) :
           /\ sent[i] = buf[Min(Stops)] /\ sent[i] # "part"
           /\ \A j \in 1 .. i - 1 : sent[j] = "part"
<1> DEFINE i == Min(Stops)
<1>1. i \in pos .. Len(buf) /\ buf[i] # "part" /\ \A j \in pos .. i - 1 : buf[j] = "part"
  BY StopFacts
<1> HIDE DEF i
<1>2. sent = buf \o sock /\ Len(sent) = Len(buf) + Len(sock)
      /\ \A k \in 1 .. Len(buf) : sent[k] = buf[k]
  BY ConcatProperties DEF TypeOK, StreamKept
<1>3. i \in 1 .. Len(buf) /\ i \in 1 .. Len(sent) /\ pos \in Nat
  BY <1>1, <1>2 DEF TypeOK
<1>4. ASSUME NEW j \in 1 .. i - 1 PROVE sent[j] = "part"
  <2>1. j \in 1 .. Len(buf) /\ (j \in 1 .. pos - 1 \/ j \in pos .. i - 1)
    BY <1>3
  <2> QED
    BY <1>1, <1>2, <2>1 DEF NoneYet
<1> QED
  BY <1>1, <1>2, <1>3, <1>4 DEF i

(* What decides the first verdict. *)
LEMMA FirstStep ==
  ASSUME LineInv, [Next]_vars
  PROVE  FirstFound'
<1> USE DEF LineInv, TypeOK, StreamKept, Place, FirstFound
<1>1. ASSUME NEW b \in Byte, Send(b) PROVE FirstFound'
  <2>1. /\ sent' \in Seq(Byte) /\ Len(sent') = Len(sent) + 1
        /\ \A k \in 1 .. Len(sent) : sent'[k] = sent[k]
    BY <1>1, AppendProperties DEF Send
  <2>2. ASSUME verdicts # <<>>, verdicts[1] \notin Cut PROVE Decided'
    <3>1. PICK i \in 1 .. Len(sent) :
            /\ sent[i] = verdicts[1] /\ sent[i] # "part"
            /\ \A j \in 1 .. i - 1 : sent[j] = "part"
      BY <2>2 DEF Decided
    <3>2. Len(sent) \in Nat /\ verdicts' = verdicts
      BY <1>1 DEF Send
    <3>3. i \in 1 .. Len(sent') /\ sent'[i] = sent[i]
      BY <2>1, <3>2
    <3>4. ASSUME NEW j \in 1 .. i - 1 PROVE sent'[j] = "part"
      <4>1. j \in 1 .. Len(sent) /\ sent[j] = "part"
        BY <3>1, <3>2
      <4> QED
        BY <2>1, <4>1
    <3> QED
      BY <3>1, <3>2, <3>3, <3>4 DEF Decided
  <2>3. verdicts # <<>> /\ verdicts[1] \in Cut => CutOff'
    BY <1>1 DEF Send, CutOff, bufVars
  <2>4. verdicts' = verdicts /\ (NoneYet => NoneYet')
    BY <1>1 DEF Send, NoneYet, bufVars
  <2> QED
    BY <2>2, <2>3, <2>4
<1>2. ASSUME NEW how \in {"fin", "rst"}, Hangup(how) PROVE FirstFound'
  BY <1>2 DEF Hangup, bufVars, NoneYet, CutOff, Decided
<1>3. CASE Dispatch
  BY <1>3 DEF Dispatch, clientVars, bufVars, NoneYet, CutOff, Decided
<1>4. CASE WaitRecv
  BY <1>4 DEF WaitRecv, NoneYet
<1>5. CASE WaitAgain
  BY <1>5 DEF WaitAgain, NoneYet
<1>6. CASE WaitClose
  BY <1>6 DEF WaitClose, NoneYet, bufVars
<1>7. CASE ReadBuffered
  BY <1>7 DEF ReadBuffered, clientVars, bufVars, NoneYet, CutOff, Decided
<1>8. CASE ReadRecv
  <2>1. PICK n \in Received(Space) \ {0} :
          Take(n) /\ buf' = buf \o SubSeq(sock, 1, n)
    BY <1>8 DEF ReadRecv
  <2>2. Space \in Nat
    BY DEF Space
  <2>3. n \in 0 .. Len(sock)
    BY <2>1, <2>2, ReceivedFacts
  <2>4. \A k \in 1 .. Len(buf) : buf'[k] = buf[k]
    BY <2>1, <2>3, CutFacts, ConcatProperties
  <2>5. NoneYet => NoneYet'
    BY <1>8, <2>4 DEF ReadRecv, NoneYet
  <2>6. ~ CutOff
    BY <1>8, NothingMore DEF ReadRecv
  <2> QED
    BY <1>8, <2>5, <2>6 DEF ReadRecv, Decided, clientVars
<1>9. CASE ReadAgain
  BY <1>9 DEF ReadAgain, clientVars, bufVars, NoneYet, CutOff, Decided
<1>10. CASE ReadEnd
  <2>1. /\ verdicts' # <<>>
        /\ verdicts'[1] = IF verdicts = <<>> THEN "premature" ELSE verdicts[1]
    BY <1>10, VerdictFacts DEF ReadEnd, Verdict, Verdicts
  <2>2. CutOff => CutOff'
    BY <1>10 DEF ReadEnd, CutOff, clientVars, bufVars
  <2>3. CASE verdicts # <<>>
    BY <1>10, <2>1, <2>2, <2>3 DEF ReadEnd, Decided, clientVars, bufVars
  <2>4. CASE verdicts = <<>>
    <3>1. \A k \in 1 .. Len(buf) : buf[k] = "part"
      BY <1>10, <2>4, UnparsedFacts DEF ReadEnd, NoneYet
    <3>2. Len(buf) = Size \/ (sock = <<>> /\ peer # "open")
      <4>1. CASE 0 \in Received(Space)
        <5>1. Space \in Nat
          BY DEF Space
        <5> QED
          BY <4>1, <5>1, ReceivedFacts DEF Space
      <4>2. CASE 0 \notin Received(Space)
        BY <1>10, <4>2 DEF ReadEnd, AtEnd
      <4> QED
        BY <4>1, <4>2
    <3> QED
      BY <1>10, <2>1, <2>2, <2>4, <3>1, <3>2 DEF CutOff, Cut
  <2> QED
    BY <2>3, <2>4
<1>11. CASE ReadError
  <2>1. /\ verdicts' # <<>>
        /\ verdicts'[1] = IF verdicts = <<>> THEN "error" ELSE verdicts[1]
    BY <1>11, VerdictFacts DEF ReadError, Verdict, Verdicts
  <2>2. CutOff => CutOff'
    BY <1>11 DEF ReadError, CutOff, clientVars, bufVars
  <2>3. CASE verdicts # <<>>
    BY <1>11, <2>1, <2>2, <2>3 DEF ReadError, Decided, clientVars, bufVars
  <2>4. CASE verdicts = <<>>
    <3>1. \A k \in 1 .. Len(buf) : buf[k] = "part"
      BY <1>11, <2>4, UnparsedFacts DEF ReadError, NoneYet
    <3> QED
      BY <1>11, <2>1, <2>2, <2>4, <3>1 DEF ReadError, Failed, CutOff, Cut
  <2> QED
    BY <2>3, <2>4
<1>12. CASE ParseAgain
  <2>0. \A k \in pos .. Len(buf) : buf[k] = "part"
    BY <1>12 DEF ParseAgain, Stops
  <2>1. NoneYet => NoneYet'
    BY <1>12, <2>0 DEF ParseAgain, NoneYet
  <2> QED
    BY <1>12, <2>1 DEF ParseAgain, CutOff, Decided, clientVars
<1>13. CASE ParseWrong
  <2>1. /\ verdicts' # <<>>
        /\ verdicts'[1] = IF verdicts = <<>> THEN "wrong" ELSE verdicts[1]
    BY <1>13, VerdictFacts DEF ParseWrong, Verdict, Verdicts
  <2>2. CASE verdicts # <<>>
    BY <1>13, <2>1, <2>2 DEF ParseWrong, CutOff, Decided, clientVars, bufVars
  <2>3. CASE verdicts = <<>>
    <3>1. Decided'
      BY <1>13, <2>1, <2>3, StopDecides DEF ParseWrong, Decided, clientVars
    <3> QED
      BY <2>1, <2>3, <3>1 DEF Cut
  <2> QED
    BY <2>2, <2>3
<1>14. CASE ParseLine
  <2>1. /\ verdicts' # <<>>
        /\ verdicts'[1] = IF verdicts = <<>> THEN buf[Min(Stops)] ELSE verdicts[1]
    BY <1>14, VerdictFacts DEF ParseLine, Verdict, Verdicts
  <2>2. CASE verdicts # <<>>
    BY <1>14, <2>1, <2>2 DEF ParseLine, CutOff, Decided, clientVars
  <2>3. CASE verdicts = <<>>
    <3>1. Decided'
      BY <1>14, <2>1, <2>3, StopDecides DEF ParseLine, Decided, clientVars
    <3> QED
      BY <1>14, <2>1, <2>3, <3>1 DEF Cut, ParseLine, Ends
  <2> QED
    BY <2>2, <2>3
<1>15. CASE UNCHANGED vars
  BY <1>15 DEF vars, NoneYet, CutOff, Decided
<1> QED
  BY <1>1, <1>2, <1>3, <1>4, <1>5, <1>6, <1>7, <1>8,
     <1>9, <1>10, <1>11, <1>12, <1>13, <1>14, <1>15
     DEF Next, Client, Server

(* A parser that stops at a byte does not reach what is after it. *)
LEMMA AheadStops ==
  ASSUME TypeOK, WrongAhead
  PROVE  /\ Unparsed # <<>> /\ Stops # {} /\ buf[Min(Stops)] = "wrong"
<1>1. PICK i \in pos .. Len(buf) :
        buf[i] = "wrong" /\ \A j \in pos .. i - 1 : buf[j] = "part"
  BY DEF WrongAhead
<1>2. Unparsed # <<>>
  BY <1>1, UnparsedFacts DEF TypeOK
<1>3. i \in Stops
  BY <1>1 DEF Stops
<1>4. Min(Stops) \in pos .. Len(buf) /\ buf[Min(Stops)] # "part" /\ Min(Stops) <= i
  <2>1. Stops \in SUBSET Nat
    BY DEF Stops, TypeOK
  <2> QED
    BY <1>3, <2>1, MinFacts, StopFacts
<1>5. Min(Stops) = i
  BY <1>1, <1>4 DEF TypeOK
<1> QED
  BY <1>1, <1>2, <1>3, <1>5

(* A wrong byte is not passed. *)
LEMMA StuckStep ==
  ASSUME LineInv, [Next]_vars
  PROVE  StuckAtWrong'
<1> USE DEF LineInv, TypeOK, Place, StuckAtWrong
<1>1. ASSUME NEW b \in Byte, Send(b) PROVE StuckAtWrong'
  BY <1>1 DEF Send, clientVars, bufVars, WrongAhead
<1>2. ASSUME NEW how \in {"fin", "rst"}, Hangup(how) PROVE StuckAtWrong'
  BY <1>2 DEF Hangup, clientVars, bufVars, WrongAhead
<1>3. CASE Dispatch
  BY <1>3 DEF Dispatch, clientVars, bufVars, WrongAhead
<1>4. CASE WaitRecv
  BY <1>4, EmptySeq DEF WaitRecv
<1>5. CASE WaitAgain
  BY <1>5, EmptySeq DEF WaitAgain
<1>6. CASE WaitClose
  BY <1>6, EmptySeq DEF WaitClose
<1>7. CASE ReadBuffered
  BY <1>7 DEF ReadBuffered, clientVars, bufVars, WrongAhead
<1>8. CASE ReadRecv
  <2>1. ~ WrongAhead
    BY <1>8, AheadStops DEF ReadRecv
  <2>2. \A k \in 1 .. Len(verdicts) : verdicts[k] # "wrong"
    BY <2>1
  <2> QED
    BY <1>8, <2>2 DEF ReadRecv
<1>9. CASE ReadAgain
  BY <1>9 DEF ReadAgain, clientVars, bufVars, WrongAhead
<1>10. CASE ReadEnd
  <2>1. ~ WrongAhead
    BY <1>10, AheadStops DEF ReadEnd
  <2>2. \A k \in 1 .. Len(verdicts) : verdicts[k] # "wrong"
    BY <2>1
  <2>3. \A k \in 1 .. Len(verdicts') : verdicts'[k] # "wrong"
    BY <1>10, <2>2, VerdictFacts DEF ReadEnd, Verdict, Verdicts
  <2> QED
    BY <2>1, <2>3
<1>11. CASE ReadError
  <2>1. ~ WrongAhead
    BY <1>11, AheadStops DEF ReadError
  <2>2. \A k \in 1 .. Len(verdicts) : verdicts[k] # "wrong"
    BY <2>1
  <2>3. \A k \in 1 .. Len(verdicts') : verdicts'[k] # "wrong"
    BY <1>11, <2>2, VerdictFacts DEF ReadError, Verdict, Verdicts
  <2> QED
    BY <2>1, <2>3
<1>12. CASE ParseAgain
  <2>1. ~ WrongAhead
    BY <1>12, AheadStops DEF ParseAgain
  <2>2. \A k \in 1 .. Len(verdicts) : verdicts[k] # "wrong"
    BY <2>1
  <2> QED
    BY <1>12, <2>2 DEF ParseAgain
<1>13. CASE ParseWrong
  <2>1. handler' = "line" /\ WrongAhead
    BY <1>13, StopFacts DEF ParseWrong, WrongAhead
  <2> QED
    BY <1>13, <2>1 DEF ParseWrong, WrongAhead, bufVars
<1>14. CASE ParseLine
  <2>0. buf[Min(Stops)] # "wrong" /\ buf[Min(Stops)] \in Verdicts
    BY <1>14 DEF ParseLine, Ends, Verdicts
  <2>1. ~ WrongAhead
    BY <1>14, <2>0, AheadStops DEF ParseLine
  <2>2. \A k \in 1 .. Len(verdicts) : verdicts[k] # "wrong"
    BY <2>1
  <2>3. \A k \in 1 .. Len(verdicts') : verdicts'[k] # "wrong"
    BY <1>14, <2>0, <2>2, VerdictFacts DEF ParseLine, Verdict
  <2> QED
    BY <2>1, <2>3
<1>15. CASE UNCHANGED vars
  BY <1>15 DEF vars, WrongAhead
<1> QED
  BY <1>1, <1>2, <1>3, <1>4, <1>5, <1>6, <1>7, <1>8,
     <1>9, <1>10, <1>11, <1>12, <1>13, <1>14, <1>15
     DEF Next, Client, Server

LEMMA BothEarlier ==
  ASSUME NEW n \in Nat, NEW i \in 1 .. n + 1, NEW j \in 1 .. n + 1, i < j, j # n + 1
  PROVE  i \in 1 .. n /\ j \in 1 .. n
OBVIOUS

(* After a refusal every verdict is a refusal. *)
LEMMA RefusalStep ==
  ASSUME LineInv, [Next]_vars
  PROVE  RefusalStays'
<1> USE DEF LineInv, TypeOK, Place, StuckAtWrong, RefusalStays
<1>1. ASSUME NEW b \in Byte, Send(b) PROVE RefusalStays'
  BY <1>1 DEF Send
<1>2. ASSUME NEW how \in {"fin", "rst"}, Hangup(how) PROVE RefusalStays'
  BY <1>2 DEF Hangup
<1>3. CASE Dispatch
  BY <1>3 DEF Dispatch
<1>4. CASE WaitRecv
  BY <1>4 DEF WaitRecv
<1>5. CASE WaitAgain
  BY <1>5 DEF WaitAgain
<1>6. CASE WaitClose
  BY <1>6 DEF WaitClose
<1>7. CASE ReadBuffered
  BY <1>7 DEF ReadBuffered
<1>8. CASE ReadRecv
  BY <1>8 DEF ReadRecv
<1>9. CASE ReadAgain
  BY <1>9 DEF ReadAgain
<1>10. CASE ReadEnd
  <2>1. \A i \in 1 .. Len(verdicts) : verdicts[i] # "wrong"
    BY <1>10, AheadStops DEF ReadEnd
  <2> QED
    BY <1>10, <2>1, VerdictFacts DEF ReadEnd, Verdict, Verdicts
<1>11. CASE ReadError
  <2>1. \A i \in 1 .. Len(verdicts) : verdicts[i] # "wrong"
    BY <1>11, AheadStops DEF ReadError
  <2> QED
    BY <1>11, <2>1, VerdictFacts DEF ReadError, Verdict, Verdicts
<1>12. CASE ParseAgain
  BY <1>12 DEF ParseAgain
<1>13. CASE ParseWrong
  <2>1. /\ Len(verdicts') = Len(verdicts) + 1
        /\ \A i \in 1 .. Len(verdicts) : verdicts'[i] = verdicts[i]
        /\ verdicts'[Len(verdicts) + 1] = "wrong"
    BY <1>13, VerdictFacts DEF ParseWrong, Verdict, Verdicts
  <2>2. Len(verdicts) \in Nat
    BY LenProperties
  <2> DEFINE n == Len(verdicts)
  <2>3. ASSUME NEW i \in 1 .. n + 1, NEW j \in 1 .. n + 1, i < j, verdicts'[i] = "wrong"
        PROVE  verdicts'[j] = "wrong"
    <3>1. CASE j = n + 1
      BY <2>1, <3>1
    <3>2. CASE j # n + 1
      <4>1. i \in 1 .. n /\ j \in 1 .. n
        BY <2>2, <2>3, <3>2, BothEarlier
      <4> QED
        BY <2>1, <2>3, <4>1
    <3> QED
      BY <3>1, <3>2
  <2> QED
    BY <2>1, <2>3
<1>14. CASE ParseLine
  <2>1. \A i \in 1 .. Len(verdicts) : verdicts[i] # "wrong"
    BY <1>14, AheadStops DEF ParseLine, Ends
  <2> QED
    BY <1>14, <2>1, VerdictFacts DEF ParseLine, Verdict, Verdicts, Ends
<1>15. CASE UNCHANGED vars
  BY <1>15 DEF vars
<1> QED
  BY <1>1, <1>2, <1>3, <1>4, <1>5, <1>6, <1>7, <1>8,
     <1>9, <1>10, <1>11, <1>12, <1>13, <1>14, <1>15
     DEF Next, Client, Server

LEMMA Invariant == Spec => []LineInv
<1>1. LineInv /\ [Next]_vars => LineInv'
  BY TypeStep, StreamStep, EdgeStep, PlaceStep, FirstStep, StuckStep, RefusalStep
     DEF LineInv
<1> QED
  BY <1>1, InitInv, PTL DEF Spec

-----------------------------------------------------------------------------
(* The results *)

(***************************************************************************)
(* Types hold for every buffer size: no recv() writes behind the buffer    *)
(* and b->pos never passes b->last.                                        *)
(***************************************************************************)
THEOREM TypeCorrect == Spec => []TypeOK
BY Invariant, PTL DEF LineInv

(***************************************************************************)
(* What the client sent is what the buffer and the socket hold, in order.  *)
(***************************************************************************)
THEOREM Stream == Spec => []StreamKept
BY Invariant, PTL DEF LineInv

(***************************************************************************)
(* With edge-triggered events, no handler returns with something unread    *)
(* before it has given a verdict.                                          *)
(***************************************************************************)
THEOREM EdgesKept == Spec => []NoLostEdge
BY Invariant, PTL DEF LineInv

(***************************************************************************)
(* The first verdict is on the first line that was sent, and a read that   *)
(* failed or ended decides only if there was none in the buffer.           *)
(***************************************************************************)
THEOREM FirstVerdictRight == Spec => []FirstVerdict
<1>1. LineInv => FirstVerdict
  <2> SUFFICES ASSUME LineInv, verdicts # <<>> PROVE FirstVerdict
    BY DEF FirstVerdict
  <2>1. CASE verdicts[1] \in Cut
    BY <2>1 DEF LineInv, FirstFound, CutOff, Cut, FirstVerdict
  <2>2. CASE verdicts[1] \notin Cut
    <3>1. PICK i \in 1 .. Len(sent) :
            /\ sent[i] = verdicts[1] /\ sent[i] # "part"
            /\ \A j \in 1 .. i - 1 : sent[j] = "part"
      BY <2>2 DEF LineInv, FirstFound, Decided
    <3>2. i \in StopsSent /\ StopsSent \in SUBSET Nat
      BY <3>1 DEF StopsSent
    <3>3. Min(StopsSent) \in StopsSent /\ Min(StopsSent) <= i
      BY <3>2, MinFacts
    <3>4. Min(StopsSent) = i
      BY <3>1, <3>3 DEF StopsSent
    <3> QED
      BY <2>2, <3>1, <3>2, <3>4 DEF FirstVerdict, Cut
  <2> QED
    BY <2>1, <2>2
<1> QED
  BY <1>1, Invariant, PTL

(***************************************************************************)
(* Nothing is accepted on a connection after a line was refused for one of *)
(* its bytes.                                                              *)
(***************************************************************************)
THEOREM RefusalIsFinal == Spec => []RefusalStays
BY Invariant, PTL DEF LineInv
=============================================================================
