--------------------------- MODULE HttpConnection ---------------------------
(***************************************************************************)
(* One connection of http_request.c: the read handlers that an             *)
(* edge-triggered event runs, os_recv of recv.c, the buffer of the request *)
(* line and the loop that alternates reading and parsing.                  *)
(*                                                                         *)
(* A byte is what it does to http_parse_request_line (RequestLine): it is  *)
(* "part" of a line, it is "wrong" where it is, or it ends a line, which   *)
(* is an HTTP/1.x request ("line"), a GET of HTTP/0.9 ("line09") or one    *)
(* that is refused as a whole ("refused": another method of HTTP/0.9, or a *)
(* host that is not valid).                                                *)
(*                                                                         *)
(* net.c is not in the repository.  What is used of it: init_connection    *)
(* makes a non-blocking socket, netio_init registers its event once, with  *)
(* EPOLLET, for reading and writing, and netio_pollevent calls the handler *)
(* of an event that is ready.  The event is active from then on, so        *)
(* epoll_event_add does nothing, and no timer exists.                      *)
(***************************************************************************)
EXTENDS Integers, Sequences, FiniteSetsExt

CONSTANTS
  Size,     \* MAX_REQUEST_LINE_SIZE
  MaxSent   \* bound: bytes that the client sends

ASSUME SizeAssumption == Size \in Nat \ {0} /\ MaxSent \in Nat

Ends == {"line", "line09", "refused"}
Byte == {"part", "wrong"} \cup Ends

VARIABLES
  sent,      \* all bytes the client has sent
  sock,      \* those that recv has not returned yet
  peer,      \* the client: "open", "fin" after a close, "rst" after a reset
  ready,     \* the edge: epoll_wait will report the event
  conn,      \* "open", or "closed" by http_close_connection
  handler,   \* event_handler of ev->cont: "wait", "line" or "headers"
  pc,        \* the event thread: "poll", or where it is in the handlers
  buf,       \* the bytes from b->start to b->last
  pos,       \* index of b->pos
  verdicts   \* how the calls of http_process_request_line have ended

clientVars == <<sent, peer>>
bufVars == <<buf, pos>>
vars == <<sent, sock, peer, ready, conn, handler, pc, buf, pos, verdicts>>

(* netio_init: the socket is writable, which is an edge too. *)
Init ==
  /\ sent = <<>> /\ sock = <<>> /\ peer = "open" /\ ready = TRUE
  /\ conn = "open" /\ handler = "wait" /\ pc = "poll"
  /\ buf = <<>> /\ pos = 1
  /\ verdicts = <<>>

-----------------------------------------------------------------------------
(* The client.  Whatever arrives is an edge.  A reset leaves what has      *)
(* arrived before it to be read, as Linux does.                            *)

Send(b) ==
  /\ peer = "open" /\ Len(sent) < MaxSent
  /\ sent' = Append(sent, b)
  /\ sock' = IF conn = "open" THEN Append(sock, b) ELSE sock
  /\ ready' = (conn = "open")
  /\ UNCHANGED <<peer, conn, handler, pc, bufVars, verdicts>>

Hangup(how) ==
  /\ peer = "open"
  /\ peer' = how
  /\ ready' = (conn = "open")
  /\ UNCHANGED <<sent, sock, conn, handler, pc, bufVars, verdicts>>

-----------------------------------------------------------------------------
(* recv() of at most n bytes: how many there are, or what it returns        *)
(* instead.  A recv() of no bytes returns 0 only when there are some.       *)
(* os_recv calls again after EINTR, so that is no outcome of it.            *)

Received(n) == IF sock = <<>> THEN {} ELSE Min({1, n}) .. Min({n, Len(sock)})
WouldBlock == sock = <<>> /\ peer = "open"
AtEnd(n) == 0 \in Received(n) \/ (sock = <<>> /\ peer = "fin")
Failed == sock = <<>> /\ peer = "rst"

Take(k) == sock' = SubSeq(sock, k + 1, Len(sock))

Return == pc' = "poll"

Verdict(v) == verdicts' = Append(verdicts, v) /\ Return

-----------------------------------------------------------------------------
(* e->cont->event_handler(e), in netio_pollevent *)
Dispatch ==
  /\ pc = "poll" /\ conn = "open" /\ ready
  /\ ready' = FALSE
  /\ \/ handler = "wait" /\ pc' = "wait"
     \/ handler = "line" /\ pc' = "read"
     \/ handler = "headers" /\ pc' = "poll"
  /\ UNCHANGED <<clientVars, sock, conn, handler, bufVars, verdicts>>

(* http_wait_request_handler, in a new buffer at every call. *)

(* A slip: the handler of the event is not replaced. *)
WaitRecvKeepsHandler ==
  /\ pc = "wait"
  /\ \E n \in Received(Size) : Take(n) /\ buf' = SubSeq(sock, 1, n)
  /\ pos' = 1
  /\ pc' = "read"
  /\ UNCHANGED <<clientVars, ready, conn, handler, verdicts>>

WaitRecv ==
  /\ pc = "wait"
  /\ \E n \in Received(Size) : Take(n) /\ buf' = SubSeq(sock, 1, n)
  /\ pos' = 1
  /\ handler' = "line"
  /\ pc' = "read"
  /\ UNCHANGED <<clientVars, ready, conn, verdicts>>

WaitAgain ==
  /\ pc = "wait" /\ WouldBlock
  /\ buf' = <<>> /\ pos' = 1
  /\ Return
  /\ UNCHANGED <<clientVars, sock, ready, conn, handler, verdicts>>

(* A read of 0 or an error: http_close_connection. *)
WaitClose ==
  /\ pc = "wait" /\ (AtEnd(Size) \/ Failed)
  /\ conn' = "closed" /\ sock' = <<>> /\ ready' = FALSE
  /\ Return
  /\ UNCHANGED <<clientVars, handler, bufVars, verdicts>>

(* http_read_request_header *)

Unparsed == SubSeq(buf, pos, Len(buf))
Space == Size - Len(buf)

(* What is left in the buffer is parsed before anything else is read. *)
ReadBuffered ==
  /\ pc = "read" /\ Unparsed # <<>>
  /\ pc' = "parse"
  /\ UNCHANGED <<clientVars, sock, ready, conn, handler, bufVars, verdicts>>

(* A slip: as much is asked for as at first. *)
ReadRecvSize ==
  /\ pc = "read" /\ Unparsed = <<>>
  /\ \E n \in Received(Size) \ {0} : Take(n) /\ buf' = buf \o SubSeq(sock, 1, n)
  /\ pc' = "parse"
  /\ UNCHANGED <<clientVars, ready, conn, handler, pos, verdicts>>

ReadRecv ==
  /\ pc = "read" /\ Unparsed = <<>>
  /\ \E n \in Received(Space) \ {0} : Take(n) /\ buf' = buf \o SubSeq(sock, 1, n)
  /\ pc' = "parse"
  /\ UNCHANGED <<clientVars, ready, conn, handler, pos, verdicts>>

ReadAgain ==
  /\ pc = "read" /\ Unparsed = <<>> /\ WouldBlock
  /\ Return
  /\ UNCHANGED <<clientVars, sock, ready, conn, handler, bufVars, verdicts>>

(* A slip: the end of the stream is looked for before the buffer. *)
ReadEndFirst ==
  /\ pc = "read" /\ AtEnd(Space)
  /\ Verdict("premature")
  /\ UNCHANGED <<clientVars, sock, ready, conn, handler, bufVars>>

(* recv() returned 0: "client prematurely closed connection" *)
ReadEnd ==
  /\ pc = "read" /\ Unparsed = <<>> /\ AtEnd(Space)
  /\ Verdict("premature")
  /\ UNCHANGED <<clientVars, sock, ready, conn, handler, bufVars>>

ReadError ==
  /\ pc = "read" /\ Unparsed = <<>> /\ Failed
  /\ Verdict("error")
  /\ UNCHANGED <<clientVars, sock, ready, conn, handler, bufVars>>

(* http_process_request_line, after http_parse_request_line *)

Stops == {i \in pos .. Len(buf) : buf[i] # "part"}

(* A slip: one read per event. *)
ParseReturns ==
  /\ pc = "parse" /\ Stops = {}
  /\ pos' = Len(buf) + 1
  /\ Return
  /\ UNCHANGED <<clientVars, sock, ready, conn, handler, buf, verdicts>>

ParseAgain ==
  /\ pc = "parse" /\ Stops = {}
  /\ pos' = Len(buf) + 1
  /\ pc' = "read"
  /\ UNCHANGED <<clientVars, sock, ready, conn, handler, buf, verdicts>>

(* A slip: the parser moves b->pos before it returns an error. *)
ParseWrongMoves ==
  /\ pc = "parse" /\ Stops # {}
  /\ buf[Min(Stops)] = "wrong"
  /\ pos' = Min(Stops) + 1
  /\ Verdict("wrong")
  /\ UNCHANGED <<clientVars, sock, ready, conn, handler, buf>>

(* The parser returns an error and leaves b->pos where it was. *)
ParseWrong ==
  /\ pc = "parse" /\ Stops # {}
  /\ buf[Min(Stops)] = "wrong"
  /\ Verdict("wrong")
  /\ UNCHANGED <<clientVars, sock, ready, conn, handler, bufVars>>

(* Only a request that has headers changes the handler. *)
ParseLine ==
  /\ pc = "parse" /\ Stops # {}
  /\ buf[Min(Stops)] \in Ends
  /\ pos' = Min(Stops) + 1
  /\ handler' = IF buf[Min(Stops)] = "line" THEN "headers" ELSE handler
  /\ Verdict(buf[Min(Stops)])
  /\ UNCHANGED <<clientVars, sock, ready, conn, buf>>

-----------------------------------------------------------------------------
Client == (\E b \in Byte : Send(b)) \/ (\E how \in {"fin", "rst"} : Hangup(how))

Server ==
  \/ Dispatch
  \/ WaitRecv \/ WaitAgain \/ WaitClose
  \/ ReadBuffered \/ ReadRecv \/ ReadAgain \/ ReadEnd \/ ReadError
  \/ ParseAgain \/ ParseWrong \/ ParseLine

Next == Client \/ Server

Spec == Init /\ [][Next]_vars

(* The event thread polls forever (PollsForever in EventLoop), and a       *)
(* handler that has been called runs to its end.                           *)
FairSpec == Spec /\ WF_vars(Server)

-----------------------------------------------------------------------------
(* What the code promises *)

TypeOK ==
  /\ sent \in Seq(Byte) /\ Len(sent) <= MaxSent
  /\ sock \in Seq(Byte)
  /\ peer \in {"open", "fin", "rst"}
  /\ ready \in BOOLEAN
  /\ conn \in {"open", "closed"}
  /\ handler \in {"wait", "line", "headers"}
  /\ pc \in {"poll", "wait", "read", "parse"}
  /\ buf \in Seq(Byte) /\ Len(buf) <= Size
  /\ pos \in 1 .. Len(buf) + 1
  /\ verdicts \in Seq({"wrong", "premature", "error"} \cup Ends)

(***************************************************************************)
(* No byte is lost or reordered between the client and the parser,         *)
(* although the wait handler starts with a new buffer at every call.       *)
(***************************************************************************)
StreamKept == conn = "open" => sent = buf \o sock

(***************************************************************************)
(* Edges are not lost: a handler only goes back to epoll_wait, without a   *)
(* new edge to wake it, when it has read everything and the end of the     *)
(* stream, or has given its verdict on the request line.                   *)
(***************************************************************************)
NoLostEdge ==
  pc = "poll" /\ conn = "open" /\ ~ ready /\ verdicts = <<>> =>
    sock = <<>> /\ peer = "open"

StopsSent == {i \in 1 .. Len(sent) : sent[i] # "part"}

(***************************************************************************)
(* The first verdict is on the first line the client has sent, however it  *)
(* arrived: a read that failed or ended is reported only if the buffer had *)
(* no complete line.                                                       *)
(***************************************************************************)
FirstVerdict ==
  verdicts # <<>> =>
    IF verdicts[1] \in {"premature", "error"}
    THEN \A i \in 1 .. Len(buf) : buf[i] = "part"
    ELSE StopsSent # {} /\ verdicts[1] = sent[Min(StopsSent)]

(***************************************************************************)
(* A line that was refused for one of its bytes is refused again at every  *)
(* later event: nothing that follows on the connection is accepted.        *)
(***************************************************************************)
RefusalStays ==
  \A i, j \in 1 .. Len(verdicts) :
    i < j /\ verdicts[i] = "wrong" => verdicts[j] = "wrong"

(***************************************************************************)
(* A line that fits the buffer is answered, also when the client closes or *)
(* resets the connection right after it, or sends it byte by byte.         *)
(***************************************************************************)
LineAnswered == (\E i \in StopsSent : i <= Size) ~> verdicts # <<>>

(***************************************************************************)
(* http_request.c:223 prints "client prematurely closed connection" when   *)
(* recv() has returned 0: the client should then have closed it.           *)
(***************************************************************************)
PrematureMeansClosed ==
  \A i \in 1 .. Len(verdicts) : verdicts[i] = "premature" => peer = "fin"
=============================================================================
