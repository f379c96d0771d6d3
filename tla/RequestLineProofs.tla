-------------------------- MODULE RequestLineProofs --------------------------
(***************************************************************************)
(* Every pointer that http_parse_request_line leaves behind is in its      *)
(* place, for any buffer, any bytes and any way to cut them into calls, so *)
(* no length that http_request.c computes from them is negative.           *)
(*                                                                         *)
(* The inductive invariant says for every state of the parser which of the *)
(* pointers are set by then and how they lie in the line.  A second one    *)
(* says which line ends it has read, so that a line ends at its first LF.  *)
(***************************************************************************)
EXTENDS RequestLine, TLAPS

-----------------------------------------------------------------------------
(* The pointers f when the parser is in the state s at the byte c *)

Ptrs == [Pointers -> Nat]

Near(f, c) == \A x \in Pointers : f[x] <= c

(* The states before a host, with a host, in a URI, and after one. *)
Early == {"start", "method", "spaces_before_uri", "schema", "schema_slash",
          "schema_slash_slash", "host_start"}
InAuthority == {"host_start", "host", "host_end", "host_ip_literal", "port"}
Reading == {"after_slash_in_uri", "check_uri", "uri"}
Unquit == {"after_slash_in_uri", "check_uri", "check_uri_http_09"}
Protocol == {"H", "HT", "HTT", "HTTP", "first_major_digit", "major_digit",
             "first_minor_digit", "minor_digit", "spaces_after_digit", "almost_done"}
AfterUri == {"host_http_09", "check_uri_http_09", "http_09"} \cup Protocol

Begun(f, s, c) ==
  /\ f["request_end"] = 0
  /\ s = "start" => \A x \in Pointers \ {"request_start"} : f[x] = 0
  /\ s # "start" => 0 < f["request_start"] /\ f["request_start"] < c
  /\ s \notin {"start", "method"} =>
       f["request_start"] <= f["method_end"] + 1 /\ f["method_end"] < c
  /\ f["http_protocol"] # 0 =>
       f["request_start"] <= f["http_protocol"] /\ f["http_protocol"] < c

HostPlace(f, s, c) ==
  /\ s \in Early => f["host_start"] = 0 /\ f["host_end"] = 0
  /\ s \in InAuthority \ {"host_start"} => f["host_start"] # 0
  /\ f["host_start"] # 0 => f["request_start"] <= f["host_start"] /\ f["host_start"] < c
  /\ f["host_end"] # 0 =>
       f["host_start"] # 0 /\ f["host_start"] <= f["host_end"] /\ f["host_end"] < c
  /\ s \in {"schema_slash", "schema_slash_slash"} \cup InAuthority =>
       f["request_start"] <= f["schema_end"] /\ f["schema_end"] < c
  /\ s = "schema_slash_slash" => f["schema_end"] + 1 < c
  /\ s \in InAuthority => f["schema_end"] + 2 < c

(* The arguments and the extension, in a URI that ends at e or later. *)
Inside(f, e) ==
  /\ f["args_start"] # 0 => f["uri_start"] < f["args_start"] /\ f["args_start"] <= e
  /\ f["uri_ext"] # 0 => f["uri_start"] < f["uri_ext"] /\ f["uri_ext"] <= e
  /\ f["args_start"] # 0 => f["uri_ext"] < f["args_start"]

UriPlace(f, s, c) ==
  /\ s \in Early \cup InAuthority \cup {"host_http_09"} =>
       f["args_start"] = 0 /\ f["uri_ext"] = 0
  /\ s \in Unquit => f["args_start"] = 0
  /\ s \in Reading \cup AfterUri =>
       f["request_start"] <= f["uri_start"] /\ f["uri_start"] < c
  /\ s \in Reading => Inside(f, c)
  /\ s \in AfterUri =>
       f["uri_start"] <= f["uri_end"] /\ f["uri_end"] < c /\ Inside(f, f["uri_end"])

Place(f, s, c) ==
  Near(f, c) /\ Begun(f, s, c) /\ HostPlace(f, s, c) /\ UriPlace(f, s, c)

(* What holds of them when the line ends with the byte at c. *)
Complete(f, c) ==
  /\ Near(f, c) /\ Begun(f, "almost_done", c)
  /\ HostPlace(f, "almost_done", c)
  /\ f["request_start"] <= f["uri_start"] /\ f["uri_start"] <= f["uri_end"]
  /\ f["uri_end"] <= c /\ Inside(f, f["uri_end"])

(* What LengthsFit says, span by span, when b->pos is e. *)
Fits(f, e) ==
  /\ f["request_start"] <= f["request_end"] /\ f["request_end"] <= e
  /\ f["request_start"] <= f["method_end"] + 1 /\ f["method_end"] + 1 <= e
  /\ f["http_protocol"] # 0 =>
       f["request_start"] <= f["http_protocol"] /\ f["http_protocol"] <= f["request_end"]
  /\ f["host_start"] # 0 /\ f["host_end"] # 0 =>
       /\ f["request_start"] <= f["host_start"] /\ f["host_start"] <= f["host_end"]
       /\ f["host_end"] <= e
  /\ f["request_start"] <= f["uri_start"] /\ f["uri_start"] <= f["uri_end"]
  /\ f["uri_end"] <= e
  /\ Inside(f, f["uri_end"])

-----------------------------------------------------------------------------
(* How a byte at c moves the pointers from state to state *)

LEMMA FromStart ==
  ASSUME NEW f \in Ptrs, NEW c \in Nat \ {0}, Place(f, "start", c)
  PROVE  /\ Place([f EXCEPT !["request_start"] = c], "start", c + 1)
         /\ Place([f EXCEPT !["request_start"] = c], "method", c + 1)
  BY DEF Ptrs, Place, Near, Begun, HostPlace, UriPlace, Inside, Pointers, Early, InAuthority,
         Reading, Unquit, Protocol, AfterUri

LEMMA FromMethod ==
  ASSUME NEW f \in Ptrs, NEW c \in Nat \ {0}, Place(f, "method", c)
  PROVE  /\ Place(f, "method", c + 1)
         /\ Place([f EXCEPT !["method_end"] = c - 1], "spaces_before_uri", c + 1)
  BY DEF Ptrs, Place, Near, Begun, HostPlace, UriPlace, Inside, Pointers, Early, InAuthority,
         Reading, Unquit, Protocol, AfterUri

LEMMA FromSpaces ==
  ASSUME NEW f \in Ptrs, NEW c \in Nat \ {0}, Place(f, "spaces_before_uri", c)
  PROVE  /\ Place(f, "spaces_before_uri", c + 1)
         /\ Place([f EXCEPT !["uri_start"] = c], "after_slash_in_uri", c + 1)
         /\ Place([f EXCEPT !["schema_start"] = c], "schema", c + 1)
  BY DEF Ptrs, Place, Near, Begun, HostPlace, UriPlace, Inside, Pointers, Early, InAuthority,
         Reading, Unquit, Protocol, AfterUri

LEMMA FromSchema ==
  ASSUME NEW f \in Ptrs, NEW c \in Nat \ {0}, Place(f, "schema", c)
  PROVE  /\ Place(f, "schema", c + 1)
         /\ Place([f EXCEPT !["schema_end"] = c], "schema_slash", c + 1)
  BY DEF Ptrs, Place, Near, Begun, HostPlace, UriPlace, Inside, Pointers, Early, InAuthority,
         Reading, Unquit, Protocol, AfterUri

LEMMA FromSchemaSlash ==
  ASSUME NEW f \in Ptrs, NEW c \in Nat \ {0}, Place(f, "schema_slash", c)
  PROVE  Place(f, "schema_slash_slash", c + 1)
  BY DEF Ptrs, Place, Near, Begun, HostPlace, UriPlace, Inside, Pointers, Early, InAuthority,
         Reading, Unquit, Protocol, AfterUri

LEMMA FromSchemaSlashSlash ==
  ASSUME NEW f \in Ptrs, NEW c \in Nat \ {0}, Place(f, "schema_slash_slash", c)
  PROVE  Place(f, "host_start", c + 1)
  BY DEF Ptrs, Place, Near, Begun, HostPlace, UriPlace, Inside, Pointers, Early, InAuthority,
         Reading, Unquit, Protocol, AfterUri

LEMMA FromHostStart ==
  ASSUME NEW f \in Ptrs, NEW c \in Nat \ {0}, Place(f, "host_start", c)
  PROVE  /\ Place([f EXCEPT !["host_start"] = c], "host_ip_literal", c + 1)
         /\ Place([f EXCEPT !["host_start"] = c], "host", c + 1)
  BY DEF Ptrs, Place, Near, Begun, HostPlace, UriPlace, Inside, Pointers, Early, InAuthority,
         Reading, Unquit, Protocol, AfterUri

LEMMA HostStartEnds ==
  ASSUME NEW f \in Ptrs, NEW c \in Nat \ {0}, Place(f, "host_start", c)
  PROVE  /\ Place([[f EXCEPT !["host_start"] = c] EXCEPT !["host_end"] = c], "port", c + 1)
         /\ Place([[[f EXCEPT !["host_start"] = c] EXCEPT !["host_end"] = c]
                       EXCEPT !["uri_start"] = c],
                  "after_slash_in_uri", c + 1)
         /\ Place([[[[f EXCEPT !["host_start"] = c] EXCEPT !["host_end"] = c]
                       EXCEPT !["uri_start"] = f["schema_end"] + 1]
                       EXCEPT !["uri_end"] = f["schema_end"] + 2],
                  "host_http_09", c + 1)
  BY DEF Ptrs, Place, Near, Begun, HostPlace, UriPlace, Inside, Pointers, Early, InAuthority,
         Reading, Unquit, Protocol, AfterUri

LEMMA FromHost ==
  ASSUME NEW f \in Ptrs, NEW c \in Nat \ {0}, Place(f, "host", c)
  PROVE  Place(f, "host", c + 1)
  BY DEF Ptrs, Place, Near, Begun, HostPlace, UriPlace, Inside, Pointers, Early, InAuthority,
         Reading, Unquit, Protocol, AfterUri

LEMMA HostEndsAt ==
  ASSUME NEW f \in Ptrs, NEW c \in Nat \ {0}, NEW s \in {"host", "host_end"}, Place(f, s, c)
  PROVE  /\ Place([f EXCEPT !["host_end"] = c], "port", c + 1)
         /\ Place([[f EXCEPT !["host_end"] = c] EXCEPT !["uri_start"] = c],
                  "after_slash_in_uri", c + 1)
         /\ Place([[[f EXCEPT !["host_end"] = c] EXCEPT !["uri_start"] = f["schema_end"] + 1]
                  EXCEPT !["uri_end"] = f["schema_end"] + 2],
                  "host_http_09", c + 1)
  BY DEF Ptrs, Place, Near, Begun, HostPlace, UriPlace, Inside, Pointers, Early, InAuthority,
         Reading, Unquit, Protocol, AfterUri

LEMMA FromIpLiteral ==
  ASSUME NEW f \in Ptrs, NEW c \in Nat \ {0}, Place(f, "host_ip_literal", c)
  PROVE  /\ Place(f, "host_ip_literal", c + 1)
         /\ Place(f, "host_end", c + 1)
  BY DEF Ptrs, Place, Near, Begun, HostPlace, UriPlace, Inside, Pointers, Early, InAuthority,
         Reading, Unquit, Protocol, AfterUri

LEMMA FromPort ==
  ASSUME NEW f \in Ptrs, NEW c \in Nat \ {0}, Place(f, "port", c)
  PROVE  /\ Place(f, "port", c + 1)
         /\ Place([[f EXCEPT !["port_end"] = c] EXCEPT !["uri_start"] = c],
                  "after_slash_in_uri", c + 1)
         /\ Place([[[f EXCEPT !["port_end"] = c] EXCEPT !["uri_start"] = f["schema_end"] + 1]
                  EXCEPT !["uri_end"] = f["schema_end"] + 2],
                  "host_http_09", c + 1)
  BY DEF Ptrs, Place, Near, Begun, HostPlace, UriPlace, Inside, Pointers, Early, InAuthority,
         Reading, Unquit, Protocol, AfterUri

LEMMA FromAfterUri ==
  ASSUME NEW f \in Ptrs, NEW c \in Nat \ {0},
         NEW s \in {"host_http_09", "check_uri_http_09", "http_09"}, Place(f, s, c)
  PROVE  /\ Place(f, s, c + 1)
         /\ Place(f, "almost_done", c + 1)
         /\ Complete(f, c)
         /\ Place([f EXCEPT !["http_protocol"] = c], "H", c + 1)
  BY DEF Ptrs, Place, Near, Begun, HostPlace, UriPlace, Inside, Pointers, Early, InAuthority,
         Reading, Unquit, Protocol, AfterUri, Complete

LEMMA BackInUri ==
  ASSUME NEW f \in Ptrs, NEW c \in Nat \ {0}, Place(f, "check_uri_http_09", c)
  PROVE  Place(f, "check_uri", c)
  BY DEF Ptrs, Place, Near, Begun, HostPlace, UriPlace, Inside, Pointers, Early, InAuthority,
         Reading, Unquit, Protocol, AfterUri

LEMMA BackInQuitUri ==
  ASSUME NEW f \in Ptrs, NEW c \in Nat \ {0}, Place(f, "http_09", c)
  PROVE  Place(f, "uri", c)
  BY DEF Ptrs, Place, Near, Begun, HostPlace, UriPlace, Inside, Pointers, Early, InAuthority,
         Reading, Unquit, Protocol, AfterUri

LEMMA UriEndsAt ==
  ASSUME NEW f \in Ptrs, NEW c \in Nat \ {0}, NEW s \in Reading,
         NEW t \in {"check_uri_http_09", "http_09"}, t = "http_09" \/ s # "uri",
         Place(f, s, c)
  PROVE  /\ Place([f EXCEPT !["uri_end"] = c], t, c + 1)
         /\ Place([f EXCEPT !["uri_end"] = c], "almost_done", c + 1)
         /\ Complete([f EXCEPT !["uri_end"] = c], c)
  BY DEF Ptrs, Place, Near, Begun, HostPlace, UriPlace, Inside, Pointers, Early, InAuthority,
         Reading, Unquit, Protocol, AfterUri, Complete

LEMMA UriQuitsAt ==
  ASSUME NEW f \in Ptrs, NEW c \in Nat \ {0}, NEW s \in Reading \ {"uri"}, Place(f, s, c)
  PROVE  /\ Place(f, "uri", c + 1)
         /\ Place([f EXCEPT !["args_start"] = c + 1], "uri", c + 1)
  BY DEF Ptrs, Place, Near, Begun, HostPlace, UriPlace, Inside, Pointers, Early, InAuthority,
         Reading, Unquit, Protocol, AfterUri

LEMMA FromSlash ==
  ASSUME NEW f \in Ptrs, NEW c \in Nat \ {0}, Place(f, "after_slash_in_uri", c)
  PROVE  /\ Place(f, "check_uri", c + 1)
         /\ Place(f, "after_slash_in_uri", c + 1)
  BY DEF Ptrs, Place, Near, Begun, HostPlace, UriPlace, Inside, Pointers, Early, InAuthority,
         Reading, Unquit, Protocol, AfterUri

LEMMA FromCheckUri ==
  ASSUME NEW f \in Ptrs, NEW c \in Nat \ {0}, Place(f, "check_uri", c)
  PROVE  /\ Place(f, "check_uri", c + 1)
         /\ Place([f EXCEPT !["uri_ext"] = 0], "after_slash_in_uri", c + 1)
         /\ Place([f EXCEPT !["uri_ext"] = c + 1], "check_uri", c + 1)
  BY DEF Ptrs, Place, Near, Begun, HostPlace, UriPlace, Inside, Pointers, Early, InAuthority,
         Reading, Unquit, Protocol, AfterUri

LEMMA FromUri ==
  ASSUME NEW f \in Ptrs, NEW c \in Nat \ {0}, Place(f, "uri", c)
  PROVE  Place(f, "uri", c + 1)
  BY DEF Ptrs, Place, Near, Begun, HostPlace, UriPlace, Inside, Pointers, Early, InAuthority,
         Reading, Unquit, Protocol, AfterUri

LEMMA InProtocol ==
  ASSUME NEW f \in Ptrs, NEW c \in Nat \ {0}, NEW s \in Protocol, NEW t \in Protocol,
         Place(f, s, c)
  PROVE  /\ Place(f, t, c + 1)
         /\ Complete(f, c)
  BY DEF Ptrs, Place, Near, Begun, HostPlace, UriPlace, Inside, Pointers, Early, InAuthority,
         Reading, Unquit, Protocol, AfterUri, Complete

(* The two ends of a line: at its LF, and at the CR before it. *)
LEMMA EndsAtLf ==
  ASSUME NEW f \in Ptrs, NEW c \in Nat \ {0}, Complete(f, c)
  PROVE  Fits([f EXCEPT !["request_end"] = c], c + 1)
  BY DEF Ptrs, Place, Near, Begun, HostPlace, UriPlace, Inside, Pointers, Early, InAuthority,
         Reading, Unquit, Protocol, AfterUri, Complete, Fits

LEMMA EndsAtCr ==
  ASSUME NEW f \in Ptrs, NEW c \in Nat \ {0}, Place(f, "almost_done", c)
  PROVE  c - 1 \in Nat \ {0} /\ Fits([f EXCEPT !["request_end"] = c - 1], c + 1)
  BY DEF Ptrs, Place, Near, Begun, HostPlace, UriPlace, Inside, Pointers, Early, InAuthority,
         Reading, Unquit, Protocol, AfterUri, Complete, Fits

-----------------------------------------------------------------------------
(* The invariant *)

Requests ==
  [ptr : Ptrs, flag : [Flags -> BOOLEAN], state : States,
   method : KnownMethods \cup {Unknown}, major : 0 .. WordMod - 1,
   minor : 0 .. WordMod - 1, version : Nat]

Typed ==
  /\ client \in Clients
  /\ buf \in Seq(Char) /\ Len(buf) <= BufSize
  /\ pos \in 1 .. Len(buf) + 1
  /\ busy \in BOOLEAN
  /\ p \in 1 .. Len(buf) + 1
  /\ state \in States
  /\ r \in Requests
  /\ Near(r.ptr, Len(buf) + 1)
  /\ rc \in {"none", "AGAIN", "OK", "INVALID_METHOD", "INVALID_REQUEST",
             "INVALID_09_METHOD"}
  /\ answer \in {"none", "BAD_REQUEST", "INTERNAL_SERVER_ERROR", "simple", "headers"}

Places ==
  /\ busy => Pending /\ Place(r.ptr, state, p)
  /\ ~ busy /\ Pending => Place(r.ptr, r.state, pos)
  /\ rc = "OK" => Fits(r.ptr, pos)

LineInv == Typed /\ Places

LEMMA NearMore ==
  ASSUME NEW f \in Ptrs, NEW c \in Nat, NEW d \in Nat, c <= d, Near(f, c)
  PROVE  Near(f, d)
  BY DEF Ptrs, Near

LEMMA PlaceIsNear ==
  ASSUME NEW f, NEW s, NEW c, Place(f, s, c)
  PROVE  Near(f, c)
  BY DEF Place

(***************************************************************************)
(* The ways a case of the switch can go on, given the request q with which *)
(* it does.                                                                *)
(***************************************************************************)
LEMMA Moves ==
  ASSUME LineInv, busy, p <= Len(buf), NEW s \in States, NEW q \in Requests,
         Place(q.ptr, s, p + 1), Go(s, q)
  PROVE  LineInv'
  <1>1. Near(q.ptr, p + 1) /\ q.ptr \in Ptrs
    BY PlaceIsNear DEF Requests
  <1>2. Near(q.ptr, Len(buf) + 1)
    BY <1>1, NearMore DEF LineInv, Typed
  <1>3. Typed'
    BY <1>2 DEF LineInv, Typed, Go, ioVars
  <1>4. Places'
    BY DEF LineInv, Places, Typed, Go, ioVars, Pending
  <1> QED
    BY <1>3, <1>4 DEF LineInv

LEMMA Stays ==
  ASSUME LineInv, busy, p <= Len(buf), NEW s \in States, NEW q \in Requests,
         Place(q.ptr, s, p), GoSame(s, q)
  PROVE  LineInv'
  <1>1. Near(q.ptr, p) /\ q.ptr \in Ptrs
    BY PlaceIsNear DEF Requests
  <1>2. Near(q.ptr, Len(buf) + 1)
    BY <1>1, NearMore DEF LineInv, Typed
  <1>3. Typed'
    BY <1>2 DEF LineInv, Typed, GoSame, ioVars
  <1>4. Places'
    BY DEF LineInv, Places, Typed, GoSame, ioVars, Pending
  <1> QED
    BY <1>3, <1>4 DEF LineInv

LEMMA Fails ==
  ASSUME LineInv, NEW code \in {"INVALID_METHOD", "INVALID_REQUEST"}, NEW q \in Requests,
         Near(q.ptr, Len(buf) + 1), Fail(code, q)
  PROVE  LineInv'
  <1>1. Typed'
    BY DEF LineInv, Typed, Fail, ioVars
  <1>2. Places'
    BY DEF Fail, Places, Pending
  <1> QED
    BY <1>1, <1>2 DEF LineInv

(* Point, Flag and Nine change what they say. *)
LEMMA PointFacts ==
  ASSUME NEW q \in Requests, NEW x \in Pointers, NEW v \in Nat
  PROVE  Point(q, x, v) \in Requests /\ Point(q, x, v).ptr = [q.ptr EXCEPT ![x] = v]
  BY DEF Point, Requests, Ptrs

LEMMA UriPointFacts ==
  ASSUME NEW q \in Requests, NEW v \in Nat
  PROVE  /\ Point(q, "uri_start", v) \in Requests
         /\ Point(q, "uri_start", v).ptr = [q.ptr EXCEPT !["uri_start"] = v]
         /\ Point(q, "uri_end", v) \in Requests
         /\ Point(q, "uri_end", v).ptr = [q.ptr EXCEPT !["uri_end"] = v]
  BY PointFacts DEF Pointers

LEMMA FlagFacts ==
  ASSUME NEW q \in Requests, NEW x \in Flags
  PROVE  Flag(q, x) \in Requests /\ Flag(q, x).ptr = q.ptr
  BY DEF Flag, Requests

LEMMA NineFacts ==
  ASSUME NEW q \in Requests
  PROVE  Nine(q) \in Requests /\ Nine(q).ptr = q.ptr
  BY BufAssumption DEF Nine, Requests

LEMMA ValueFacts ==
  ASSUME NEW d \in Digit
  PROVE  Value(d) \in 0 .. 9
  <1> DEFINE T == <<"0", "1", "2", "3", "4", "5", "6", "7", "8", "9">>
  <1>1. \E v \in 0 .. 9 : T[v + 1] = d
    BY DEF Digit
  <1> QED
    BY <1>1 DEF Value

LEMMA MajorFacts ==
  ASSUME NEW q \in Requests, NEW v \in 0 .. WordMod - 1
  PROVE  /\ [q EXCEPT !.major = v] \in Requests /\ [q EXCEPT !.major = v].ptr = q.ptr
         /\ [q EXCEPT !.minor = v] \in Requests /\ [q EXCEPT !.minor = v].ptr = q.ptr
  BY DEF Requests

LEMMA ShiftedFacts ==
  ASSUME NEW v \in 0 .. WordMod - 1, NEW d \in Digit
  PROVE  Value(d) \in 0 .. WordMod - 1 /\ Shifted(v, d) \in 0 .. WordMod - 1
  <1>1. Value(d) \in 0 .. 9
    BY ValueFacts
  <1>2. v * 10 + Value(d) \in Nat
    BY <1>1, BufAssumption
  <1>3. WordMod \in Nat \ {0} /\ WordMod >= 10
    BY BufAssumption
  <1> QED
    BY <1>1, <1>2, <1>3 DEF Shifted

LEMMA FinishedFacts ==
  ASSUME NEW q \in Requests, NEW v \in Nat
  PROVE  /\ [q EXCEPT !.version = v, !.state = "start"] \in Requests
         /\ [q EXCEPT !.version = v, !.state = "start"].ptr = q.ptr
  <1> DEFINE q1 == [q EXCEPT !.version = v]
  <1>1. q1 \in Requests /\ q1.ptr = q.ptr
    BY DEF Requests
  <1>2. [q EXCEPT !.version = v, !.state = "start"] = [q1 EXCEPT !.state = "start"]
    OBVIOUS
  <1> HIDE DEF q1
  <1>3. [q1 EXCEPT !.state = "start"] \in Requests /\ [q1 EXCEPT !.state = "start"].ptr = q1.ptr
    BY <1>1 DEF Requests, States
  <1> QED
    BY <1>1, <1>2, <1>3, Zenon

(* goto done, and the end of the line that it finds or sets *)
EndOf(q) == IF q.ptr["request_end"] = 0 THEN p ELSE q.ptr["request_end"]

LEMMA DoneFacts ==
  ASSUME LineInv, NEW q \in Requests, Done(q)
  PROVE  /\ r' \in Requests /\ r'.ptr = [q.ptr EXCEPT !["request_end"] = EndOf(q)]
         /\ pos' = p + 1 /\ busy' = FALSE /\ rc' \in {"OK", "INVALID_09_METHOD"}
         /\ UNCHANGED <<client, buf, answer, p, state>>
  <1> DEFINE v == q.major * 1000 + q.minor
             q1 == Point(q, "request_end", EndOf(q))
             q2 == [q1 EXCEPT !.version = v, !.state = "start"]
  <1>1. q1 \in Requests /\ q1.ptr = [q.ptr EXCEPT !["request_end"] = EndOf(q)]
    <2>1. EndOf(q) \in Nat
      BY DEF EndOf, LineInv, Typed, Requests, Ptrs, Pointers
    <2> QED
      BY <2>1, PointFacts DEF Pointers
  <1>2. v \in Nat
    BY BufAssumption DEF Requests
  <1>3. r' = q2
    BY DEF Done, EndOf
  <1>4. /\ pos' = p + 1 /\ busy' = FALSE /\ rc' \in {"OK", "INVALID_09_METHOD"}
        /\ UNCHANGED <<client, buf, answer, p, state>>
    BY DEF Done, ioVars
  <1> HIDE DEF v, q1
  <1>5. r' \in Requests /\ r'.ptr = [q.ptr EXCEPT !["request_end"] = EndOf(q)]
    BY <1>1, <1>2, <1>3, FinishedFacts, Zenon
  <1> QED
    BY <1>4, <1>5

LEMMA Finishes ==
  ASSUME LineInv, busy, p <= Len(buf), NEW q \in Requests,
         Near([q.ptr EXCEPT !["request_end"] = EndOf(q)], p + 1),
         Fits([q.ptr EXCEPT !["request_end"] = EndOf(q)], p + 1),
         Done(q)
  PROVE  LineInv'
  <1> DEFINE g == [q.ptr EXCEPT !["request_end"] = EndOf(q)]
  <1>1. /\ r' \in Requests /\ r'.ptr = g
        /\ pos' = p + 1 /\ busy' = FALSE /\ rc' \in {"OK", "INVALID_09_METHOD"}
        /\ UNCHANGED <<client, buf, answer, p, state>>
    BY DoneFacts
  <1>2. Near(g, p + 1) /\ Fits(g, p + 1)
    OBVIOUS
  <1> HIDE DEF g
  <1>3. g \in Ptrs /\ p + 1 \in Nat /\ Len(buf) + 1 \in Nat /\ p + 1 <= Len(buf) + 1
    BY <1>1 DEF Requests, LineInv, Typed
  <1>4. Near(r'.ptr, Len(buf) + 1)
    BY <1>1, <1>2, <1>3, NearMore, Zenon
  <1>5. Typed'
    <2>1. pos' \in 1 .. Len(buf') + 1
      BY <1>1 DEF LineInv, Typed
    <2>2. Near(r'.ptr, Len(buf') + 1)
      BY <1>1, <1>4
    <2>3. /\ client' \in Clients /\ busy' \in BOOLEAN
          /\ buf' \in Seq(Char) /\ Len(buf') <= BufSize
          /\ p' \in 1 .. Len(buf') + 1 /\ state' \in States
      BY <1>1 DEF LineInv, Typed
    <2>4. /\ rc' \in {"none", "AGAIN", "OK", "INVALID_METHOD", "INVALID_REQUEST",
                       "INVALID_09_METHOD"}
          /\ answer' \in {"none", "BAD_REQUEST", "INTERNAL_SERVER_ERROR", "simple",
                           "headers"}
      BY <1>1 DEF LineInv, Typed
    <2> QED
      BY <1>1, <2>1, <2>2, <2>3, <2>4 DEF Typed
  <1>6. Places'
    BY <1>1, <1>2 DEF Places, Pending
  <1> QED
    BY <1>5, <1>6 DEF LineInv

LEMMA FinishesAtLf ==
  ASSUME LineInv, busy, p <= Len(buf), NEW q \in Requests, Complete(q.ptr, p), Done(q)
  PROVE  LineInv'
  <1>1. p \in Nat \ {0} /\ q.ptr \in Ptrs
    BY DEF LineInv, Typed, Requests
  <1>2. EndOf(q) = p
    BY DEF EndOf, Complete, Begun
  <1>3. Near([q.ptr EXCEPT !["request_end"] = p], p + 1)
    BY <1>1 DEF Complete, Near, Ptrs
  <1>4. Fits([q.ptr EXCEPT !["request_end"] = p], p + 1)
    BY <1>1, EndsAtLf
  <1> QED
    BY <1>2, <1>3, <1>4, Finishes

(* What every action starts from. *)
LEMMA Here ==
  ASSUME LineInv, NEW s \in States, At(s)
  PROVE  /\ busy /\ p <= Len(buf) /\ p \in Nat \ {0}
         /\ r \in Requests /\ r.ptr \in Ptrs /\ Near(r.ptr, Len(buf) + 1)
         /\ Place(r.ptr, s, p)
         /\ p + 1 <= Len(buf) + 1
  BY DEF LineInv, Typed, Places, At, Requests

LEMMA FinishesAtCr ==
  ASSUME LineInv, At("almost_done"), NEW q \in Requests,
         q.ptr = [r.ptr EXCEPT !["request_end"] = p - 1], Done(q)
  PROVE  LineInv'
  <1>1. /\ busy /\ p <= Len(buf) /\ p \in Nat \ {0} /\ r.ptr \in Ptrs
        /\ Place(r.ptr, "almost_done", p)
    BY Here DEF States
  <1>2. p - 1 \in Nat \ {0} /\ Fits(q.ptr, p + 1) /\ Near(r.ptr, p)
    BY <1>1, EndsAtCr, PlaceIsNear
  <1>3. q.ptr["request_end"] = p - 1
    BY <1>1 DEF Ptrs, Pointers
  <1>4. EndOf(q) = p - 1 /\ [q.ptr EXCEPT !["request_end"] = EndOf(q)] = q.ptr
    BY <1>1, <1>2, <1>3 DEF EndOf, Requests, Ptrs
  <1>5. Near(q.ptr, p + 1)
    BY <1>1, <1>2 DEF Near, Ptrs
  <1> QED
    BY <1>1, <1>2, <1>4, <1>5, Finishes

(* A byte that the state does not allow *)
LEMMA Refuses ==
  ASSUME LineInv, NEW q \in Requests, Near(q.ptr, Len(buf) + 1), Invalid(q)
  PROVE  LineInv'
  BY Fails DEF Invalid

(* A pointer that is set to a byte of the buffer *)
LEMMA PointHere ==
  ASSUME NEW f \in Ptrs, NEW x \in Pointers, NEW v \in Nat, NEW d \in Nat,
         Near(f, d), v <= d
  PROVE  Near([f EXCEPT ![x] = v], d)
  BY DEF Near, Ptrs

-----------------------------------------------------------------------------
(* The cases of the switch *)

LEMMA StartKeeps == ASSUME LineInv, Start PROVE LineInv'
  <1> DEFINE q == Point(r, "request_start", p)
  <1>1. At("start") /\ "start" \in States
    BY DEF Start, States
  <1>2. q \in Requests /\ q.ptr = [r.ptr EXCEPT !["request_start"] = p]
    BY <1>1, Here, PointFacts DEF Pointers
  <1>3. Place(q.ptr, "start", p + 1) /\ Place(q.ptr, "method", p + 1)
    BY <1>1, <1>2, Here, FromStart
  <1>4. Near(q.ptr, Len(buf) + 1)
    BY <1>1, <1>2, Here DEF Near, Ptrs
  <1>5. Go("start", q) \/ Go("method", q) \/ Fail("INVALID_METHOD", q)
    BY DEF Start
  <1> HIDE DEF q
  <1> QED
    BY <1>1, <1>2, <1>3, <1>4, <1>5, Here, Moves, Fails DEF States

LEMMA MethodKeeps == ASSUME LineInv, Method PROVE LineInv'
  <1> DEFINE name == SubSeq(buf, r.ptr["request_start"], p - 1)
             m == IF name \in KnownMethods THEN name ELSE r.method
             q1 == Point(r, "method_end", p - 1)
             q == [q1 EXCEPT !.method = m]
  <1>1. At("method") /\ {"method", "spaces_before_uri"} \subseteq States
    BY DEF Method, States
  <1>2. p - 1 \in Nat
    BY <1>1, Here
  <1>3. q1 \in Requests /\ q1.ptr = [r.ptr EXCEPT !["method_end"] = p - 1] /\ q1.method = r.method
    BY <1>1, <1>2, Here, PointFacts DEF Pointers, Point
  <1>4. m \in KnownMethods \cup {Unknown}
    BY <1>1, Here DEF Requests
  <1>5. Go("spaces_before_uri", q) \/ Go("method", r) \/ Fail("INVALID_METHOD", r)
    BY <1>3 DEF Method
  <1> HIDE DEF q1, m
  <1>6. q \in Requests /\ q.ptr = q1.ptr
    BY <1>3, <1>4 DEF Requests
  <1> HIDE DEF q
  <1>7. Place(r.ptr, "method", p + 1) /\ Place(q.ptr, "spaces_before_uri", p + 1)
    BY <1>1, <1>3, <1>6, Here, FromMethod
  <1> QED
    BY <1>1, <1>5, <1>6, <1>7, Here, Moves, Fails

LEMMA SpacesBeforeUriKeeps == ASSUME LineInv, SpacesBeforeUri PROVE LineInv'
  <1> DEFINE qu == Point(r, "uri_start", p)
             qs == Point(r, "schema_start", p)
  <1>1. /\ At("spaces_before_uri")
        /\ {"spaces_before_uri", "after_slash_in_uri", "schema"} \subseteq States
    BY DEF SpacesBeforeUri, States
  <1>2. /\ qu \in Requests /\ qu.ptr = [r.ptr EXCEPT !["uri_start"] = p]
        /\ qs \in Requests /\ qs.ptr = [r.ptr EXCEPT !["schema_start"] = p]
    BY <1>1, Here, PointFacts DEF Pointers
  <1>3. \/ Go("after_slash_in_uri", qu) \/ Go("schema", qs)
        \/ Go("spaces_before_uri", r) \/ Invalid(r)
    BY DEF SpacesBeforeUri
  <1> HIDE DEF qu, qs
  <1>4. /\ Place(r.ptr, "spaces_before_uri", p + 1)
        /\ Place(qu.ptr, "after_slash_in_uri", p + 1)
        /\ Place(qs.ptr, "schema", p + 1)
    BY <1>1, <1>2, Here, FromSpaces
  <1> QED
    BY <1>1, <1>2, <1>3, <1>4, Here, Moves, Refuses

LEMMA SchemaKeeps == ASSUME LineInv, Schema PROVE LineInv'
  <1> DEFINE q == Point(r, "schema_end", p)
  <1>1. At("schema") /\ {"schema", "schema_slash"} \subseteq States
    BY DEF Schema, States
  <1>2. q \in Requests /\ q.ptr = [r.ptr EXCEPT !["schema_end"] = p]
    BY <1>1, Here, PointFacts DEF Pointers
  <1>3. Go("schema", r) \/ Go("schema_slash", q) \/ Invalid(r)
    BY DEF Schema
  <1> HIDE DEF q
  <1>4. Place(r.ptr, "schema", p + 1) /\ Place(q.ptr, "schema_slash", p + 1)
    BY <1>1, <1>2, Here, FromSchema
  <1> QED
    BY <1>1, <1>2, <1>3, <1>4, Here, Moves, Refuses

LEMMA ExpectKeeps ==
  ASSUME LineInv, NEW s \in States, NEW t \in States, NEW byte, Expect(s, byte, t),
         Place(r.ptr, s, p) => Place(r.ptr, t, p + 1)
  PROVE  LineInv'
  <1>1. At(s) /\ (Go(t, r) \/ Invalid(r))
    BY DEF Expect
  <1> QED
    BY <1>1, Here, Moves, Refuses

LEMMA SlashesKeep == ASSUME LineInv, SchemaSlash \/ SchemaSlashSlash PROVE LineInv'
  <1>1. p \in Nat /\ r.ptr \in Ptrs
    BY DEF LineInv, Typed, Requests
  <1>2. CASE SchemaSlash
    <2>1. Place(r.ptr, "schema_slash", p) => Place(r.ptr, "schema_slash_slash", p + 1)
      BY <1>2, Here, FromSchemaSlash DEF SchemaSlash, Expect, States
    <2> QED
      BY <1>2, <2>1, ExpectKeeps DEF SchemaSlash, States
  <1>3. CASE SchemaSlashSlash
    <2>1. Place(r.ptr, "schema_slash_slash", p) => Place(r.ptr, "host_start", p + 1)
      BY <1>3, Here, FromSchemaSlashSlash DEF SchemaSlashSlash, Expect, States
    <2> QED
      BY <1>3, <2>1, ExpectKeeps DEF SchemaSlashSlash, States
  <1> QED
    BY <1>2, <1>3

LEMMA HttpKeeps ==
  ASSUME LineInv, HttpH \/ HttpHT \/ HttpHTT \/ HttpHTTP
  PROVE  LineInv'
  <1>1. \A s \in Protocol, t \in Protocol :
           At(s) /\ Place(r.ptr, s, p) => Place(r.ptr, t, p + 1)
    BY Here, InProtocol DEF Protocol, States
  <1>2. CASE HttpH
    BY <1>1, <1>2, ExpectKeeps DEF HttpH, Expect, Protocol, States
  <1>3. CASE HttpHT
    BY <1>1, <1>3, ExpectKeeps DEF HttpHT, Expect, Protocol, States
  <1>4. CASE HttpHTT
    BY <1>1, <1>4, ExpectKeeps DEF HttpHTT, Expect, Protocol, States
  <1>5. CASE HttpHTTP
    BY <1>1, <1>5, ExpectKeeps DEF HttpHTTP, Expect, Protocol, States
  <1> QED
    BY <1>2, <1>3, <1>4, <1>5

(* The "/" after the schema, which it has *)
LEMMA SlashFacts ==
  ASSUME NEW q \in Requests
  PROVE  /\ SlashOfSchema(q) \in Requests
         /\ SlashOfSchema(q).ptr =
              [[q.ptr EXCEPT !["uri_start"] = q.ptr["schema_end"] + 1]
                      EXCEPT !["uri_end"] = q.ptr["schema_end"] + 2]
  <1> DEFINE v == q.ptr["schema_end"]
             q1 == Point(q, "uri_start", v + 1)
  <1>1. v + 1 \in Nat /\ v + 2 \in Nat
    BY DEF Requests, Ptrs, Pointers
  <1>2. q1 \in Requests /\ q1.ptr = [q.ptr EXCEPT !["uri_start"] = v + 1]
    BY <1>1, PointFacts DEF Pointers
  <1>3. SlashOfSchema(q) = Point(q1, "uri_end", v + 2)
    BY DEF SlashOfSchema
  <1> HIDE DEF q1, v
  <1>4. /\ Point(q1, "uri_end", v + 2) \in Requests
        /\ Point(q1, "uri_end", v + 2).ptr = [q1.ptr EXCEPT !["uri_end"] = v + 2]
    BY <1>1, <1>2, UriPointFacts
  <1> QED
    BY <1>2, <1>3, <1>4, Zenon DEF v

LEMMA HostEndsKeeps ==
  ASSUME LineInv, busy, p <= Len(buf), NEW q \in Requests, Near(q.ptr, Len(buf) + 1),
         HostEnds(q),
         Place([q.ptr EXCEPT !["host_end"] = p], "port", p + 1),
         Place([[q.ptr EXCEPT !["host_end"] = p] EXCEPT !["uri_start"] = p],
               "after_slash_in_uri", p + 1),
         Place([[[q.ptr EXCEPT !["host_end"] = p]
                        EXCEPT !["uri_start"] = q.ptr["schema_end"] + 1]
                        EXCEPT !["uri_end"] = q.ptr["schema_end"] + 2],
               "host_http_09", p + 1)
  PROVE  LineInv'
  <1> DEFINE h == Point(q, "host_end", p)
             hu == Point(h, "uri_start", p)
             hs == SlashOfSchema(h)
  <1>1. p \in Nat /\ q.ptr \in Ptrs /\ p <= Len(buf) + 1 /\ Len(buf) + 1 \in Nat
    BY DEF LineInv, Typed, Requests
  <1>2. h \in Requests /\ h.ptr = [q.ptr EXCEPT !["host_end"] = p]
    BY <1>1, PointFacts DEF Pointers
  <1>3. Go("port", h) \/ Go("after_slash_in_uri", hu) \/ Go("host_http_09", hs) \/ Invalid(h)
    BY DEF HostEnds
  <1> HIDE DEF h
  <1>4. hu \in Requests /\ hu.ptr = [h.ptr EXCEPT !["uri_start"] = p]
    BY <1>1, <1>2, UriPointFacts
  <1>5. h.ptr["schema_end"] = q.ptr["schema_end"]
    BY <1>1, <1>2 DEF Ptrs, Pointers
  <1>6. /\ hs \in Requests
        /\ hs.ptr = [[h.ptr EXCEPT !["uri_start"] = q.ptr["schema_end"] + 1]
                            EXCEPT !["uri_end"] = q.ptr["schema_end"] + 2]
    BY <1>2, <1>5, SlashFacts, Zenon
  <1>7. Near(h.ptr, Len(buf) + 1)
    BY <1>1, <1>2, PointHere DEF Pointers
  <1> HIDE DEF hu, hs
  <1>8. Place(h.ptr, "port", p + 1) /\ Place(hu.ptr, "after_slash_in_uri", p + 1)
    BY <1>2, <1>4, Zenon
  <1>9. Place(hs.ptr, "host_http_09", p + 1)
    BY <1>2, <1>6, Zenon
  <1> QED
    BY <1>2, <1>3, <1>4, <1>6, <1>7, <1>8, <1>9, Moves, Refuses DEF States

LEMMA HostStartKeeps == ASSUME LineInv, HostStart PROVE LineInv'
  <1> DEFINE q == Point(r, "host_start", p)
  <1>1. At("host_start") /\ {"host_start", "host_ip_literal", "host"} \subseteq States
    BY DEF HostStart, States
  <1>2. /\ busy /\ p <= Len(buf) /\ p \in Nat \ {0} /\ r.ptr \in Ptrs
        /\ Place(r.ptr, "host_start", p) /\ Near(r.ptr, Len(buf) + 1)
        /\ Len(buf) + 1 \in Nat
    BY <1>1, Here DEF LineInv, Typed
  <1>3. q \in Requests /\ q.ptr = [r.ptr EXCEPT !["host_start"] = p]
    BY <1>1, Here, PointFacts DEF Pointers
  <1>4. q.ptr["schema_end"] = r.ptr["schema_end"]
    BY <1>2, <1>3 DEF Ptrs, Pointers
  <1>5. Go("host_ip_literal", q) \/ Go("host", q) \/ HostEnds(q)
    BY DEF HostStart, InHost
  <1> HIDE DEF q
  <1>6. Place(q.ptr, "host_ip_literal", p + 1) /\ Place(q.ptr, "host", p + 1)
    BY <1>2, <1>3, FromHostStart
  <1>7. Near(q.ptr, Len(buf) + 1)
    BY <1>2, <1>3, PointHere DEF Pointers
  <1>8. CASE HostEnds(q)
    <2>1. Place([q.ptr EXCEPT !["host_end"] = p], "port", p + 1)
      BY <1>2, <1>3, HostStartEnds
    <2>2. Place([[q.ptr EXCEPT !["host_end"] = p] EXCEPT !["uri_start"] = p],
                "after_slash_in_uri", p + 1)
      BY <1>2, <1>3, HostStartEnds
    <2>3. Place([[[q.ptr EXCEPT !["host_end"] = p]
                         EXCEPT !["uri_start"] = q.ptr["schema_end"] + 1]
                         EXCEPT !["uri_end"] = q.ptr["schema_end"] + 2],
                "host_http_09", p + 1)
      BY <1>2, <1>3, <1>4, HostStartEnds
    <2> QED
      BY <1>2, <1>3, <1>7, <1>8, <2>1, <2>2, <2>3, HostEndsKeeps
  <1> QED
    BY <1>1, <1>2, <1>3, <1>5, <1>6, <1>8, Moves

LEMMA HostKeeps == ASSUME LineInv, Host \/ HostEnd PROVE LineInv'
  <1>1. At("host") \/ At("host_end")
    BY DEF Host, HostEnd
  <1>2. {"host", "host_end"} \subseteq States
    BY DEF States
  <1>3. /\ busy /\ p <= Len(buf) /\ p \in Nat \ {0} /\ r \in Requests /\ r.ptr \in Ptrs
        /\ Near(r.ptr, Len(buf) + 1)
    BY <1>1, <1>2, Here
  <1>4. PICK s \in {"host", "host_end"} : Place(r.ptr, s, p)
    BY <1>1, <1>2, Here
  <1>5. (At("host") /\ Go("host", r)) \/ HostEnds(r)
    BY DEF Host, HostEnd, InHost
  <1>6. CASE At("host") /\ Go("host", r)
    BY <1>2, <1>6, Here, FromHost, Moves
  <1>7. CASE HostEnds(r)
    BY <1>3, <1>4, <1>7, HostEndsAt, HostEndsKeeps
  <1> QED
    BY <1>5, <1>6, <1>7

LEMMA HostIpLiteralKeeps == ASSUME LineInv, HostIpLiteral PROVE LineInv'
  <1>1. At("host_ip_literal") /\ {"host_ip_literal", "host_end"} \subseteq States
    BY DEF HostIpLiteral, States
  <1>2. Go("host_ip_literal", r) \/ Go("host_end", r) \/ Invalid(r)
    BY DEF HostIpLiteral
  <1> QED
    BY <1>1, <1>2, Here, FromIpLiteral, Moves, Refuses

LEMMA PortKeeps == ASSUME LineInv, Port PROVE LineInv'
  <1> DEFINE q == Point(r, "port_end", p)
             qu == Point(q, "uri_start", p)
             qs == SlashOfSchema(q)
  <1>1. At("port") /\ {"port", "after_slash_in_uri", "host_http_09"} \subseteq States
    BY DEF Port, States
  <1>2. /\ busy /\ p <= Len(buf) /\ p \in Nat \ {0} /\ r.ptr \in Ptrs /\ r \in Requests
        /\ Place(r.ptr, "port", p) /\ Near(r.ptr, Len(buf) + 1)
    BY <1>1, Here
  <1>3. q \in Requests /\ q.ptr = [r.ptr EXCEPT !["port_end"] = p]
    BY <1>2, PointFacts DEF Pointers
  <1>4. Go("port", r) \/ Go("after_slash_in_uri", qu) \/ Go("host_http_09", qs) \/ Invalid(r)
    BY DEF Port
  <1> HIDE DEF q
  <1>5. qu \in Requests /\ qu.ptr = [q.ptr EXCEPT !["uri_start"] = p]
    BY <1>2, <1>3, UriPointFacts
  <1>6. q.ptr["schema_end"] = r.ptr["schema_end"]
    BY <1>2, <1>3 DEF Ptrs, Pointers
  <1>7. /\ qs \in Requests
        /\ qs.ptr = [[q.ptr EXCEPT !["uri_start"] = r.ptr["schema_end"] + 1]
                            EXCEPT !["uri_end"] = r.ptr["schema_end"] + 2]
    BY <1>3, <1>6, SlashFacts, Zenon
  <1> HIDE DEF qu, qs
  <1>8. /\ Place(r.ptr, "port", p + 1)
        /\ Place(qu.ptr, "after_slash_in_uri", p + 1)
        /\ Place(qs.ptr, "host_http_09", p + 1)
    <2>1. /\ Place(r.ptr, "port", p + 1)
          /\ Place([[r.ptr EXCEPT !["port_end"] = p] EXCEPT !["uri_start"] = p],
                   "after_slash_in_uri", p + 1)
          /\ Place([[[r.ptr EXCEPT !["port_end"] = p]
                            EXCEPT !["uri_start"] = r.ptr["schema_end"] + 1]
                            EXCEPT !["uri_end"] = r.ptr["schema_end"] + 2],
                   "host_http_09", p + 1)
      BY <1>2, FromPort
    <2> QED
      BY <2>1, <1>3, <1>5, <1>7, Zenon
  <1> QED
    BY <1>1, <1>2, <1>4, <1>5, <1>7, <1>8, Moves, Refuses

(* CR and LF after the URI, with the request q *)
LEMMA Ends09Keeps ==
  ASSUME LineInv, busy, p <= Len(buf), NEW q \in Requests, Ends09(q),
         Place(q.ptr, "almost_done", p + 1), Complete(q.ptr, p)
  PROVE  LineInv'
  <1>1. Nine(q) \in Requests /\ Nine(q).ptr = q.ptr
    BY NineFacts
  <1>2. Go("almost_done", Nine(q)) \/ Done(Nine(q))
    BY DEF Ends09
  <1>3. Place(Nine(q).ptr, "almost_done", p + 1) /\ Complete(Nine(q).ptr, p)
    BY <1>1, Zenon
  <1> QED
    BY <1>1, <1>2, <1>3, Moves, FinishesAtLf DEF States

LEMMA SpacesKeep ==
  ASSUME LineInv, NEW s \in {"host_http_09", "check_uri_http_09", "http_09"}, At(s), Spaces(s)
  PROVE  LineInv'
  <1> DEFINE q == Point(r, "http_protocol", p)
  <1>1. s \in States /\ "H" \in States
    BY DEF States
  <1>2. /\ busy /\ p <= Len(buf) /\ p \in Nat \ {0} /\ r.ptr \in Ptrs /\ r \in Requests
        /\ Place(r.ptr, s, p)
    BY <1>1, Here
  <1>3. q \in Requests /\ q.ptr = [r.ptr EXCEPT !["http_protocol"] = p]
    BY <1>2, PointFacts DEF Pointers
  <1>4. Go(s, r) \/ Ends09(r) \/ Go("H", q)
    BY DEF Spaces
  <1> HIDE DEF q
  <1>5. /\ Place(r.ptr, s, p + 1) /\ Place(r.ptr, "almost_done", p + 1)
        /\ Complete(r.ptr, p) /\ Place(q.ptr, "H", p + 1)
    BY <1>2, <1>3, FromAfterUri
  <1> QED
    BY <1>1, <1>2, <1>3, <1>4, <1>5, Moves, Ends09Keeps

LEMMA HostHttp09Keeps == ASSUME LineInv, HostHttp09 PROVE LineInv'
  <1>1. At("host_http_09") /\ "host_http_09" \in States
    BY DEF HostHttp09, States
  <1>2. Spaces("host_http_09") \/ Invalid(r)
    BY DEF HostHttp09
  <1> QED
    BY <1>1, <1>2, Here, SpacesKeep, Refuses

(* A space that turns out to be one of the URI: the byte is looked at again there. *)
LEMMA CheckUriHttp09Keeps == ASSUME LineInv, CheckUriHttp09 PROVE LineInv'
  <1> DEFINE q == Flag(r, "space_in_uri")
  <1>1. At("check_uri_http_09") /\ {"check_uri_http_09", "check_uri"} \subseteq States
    BY DEF CheckUriHttp09, States
  <1>2. Spaces("check_uri_http_09") \/ GoSame("check_uri", q)
    BY DEF CheckUriHttp09
  <1>3. q \in Requests /\ q.ptr = r.ptr
    BY <1>1, Here, FlagFacts DEF Flags
  <1> HIDE DEF q
  <1>4. Place(q.ptr, "check_uri", p)
    BY <1>1, <1>3, Here, BackInUri
  <1> QED
    BY <1>1, <1>2, <1>3, <1>4, Here, SpacesKeep, Stays

LEMMA Http09Keeps == ASSUME LineInv, Http09 PROVE LineInv'
  <1> DEFINE q == Flag(r, "space_in_uri")
  <1>1. At("http_09") /\ {"http_09", "uri"} \subseteq States
    BY DEF Http09, States
  <1>2. Spaces("http_09") \/ GoSame("uri", q)
    BY DEF Http09
  <1>3. q \in Requests /\ q.ptr = r.ptr
    BY <1>1, Here, FlagFacts DEF Flags
  <1> HIDE DEF q
  <1>4. Place(q.ptr, "uri", p)
    BY <1>1, <1>3, Here, BackInQuitUri
  <1> QED
    BY <1>1, <1>2, <1>3, <1>4, Here, SpacesKeep, Stays

(* The end of a URI, and the bytes after which it is not checked any further *)
LEMMA UriEndsKeeps ==
  ASSUME LineInv, NEW s \in Reading, At(s), NEW t \in {"check_uri_http_09", "http_09"},
         t = "http_09" \/ s # "uri", UriEnds(t)
  PROVE  LineInv'
  <1> DEFINE q == Point(r, "uri_end", p)
  <1>1. s \in States /\ t \in States
    BY DEF States, Reading
  <1>2. /\ busy /\ p <= Len(buf) /\ p \in Nat \ {0} /\ r.ptr \in Ptrs /\ r \in Requests
        /\ Place(r.ptr, s, p) /\ Near(r.ptr, Len(buf) + 1)
    BY <1>1, Here
  <1>3. q \in Requests /\ q.ptr = [r.ptr EXCEPT !["uri_end"] = p]
    BY <1>2, PointFacts DEF Pointers
  <1>4. Go(t, q) \/ Ends09(q) \/ Invalid(r)
    BY DEF UriEnds
  <1> HIDE DEF q
  <1>5. /\ Place(q.ptr, t, p + 1) /\ Place(q.ptr, "almost_done", p + 1)
        /\ Complete(q.ptr, p)
    BY <1>2, <1>3, UriEndsAt
  <1> QED
    BY <1>1, <1>2, <1>3, <1>4, <1>5, Moves, Ends09Keeps, Refuses

LEMMA FlagMoves ==
  ASSUME LineInv, busy, p <= Len(buf), NEW x \in Flags, NEW s \in States,
         Place(r.ptr, s, p + 1), Go(s, Flag(r, x))
  PROVE  LineInv'
  <1>1. Flag(r, x) \in Requests /\ Flag(r, x).ptr = r.ptr
    BY FlagFacts DEF LineInv, Typed
  <1>2. Place(Flag(r, x).ptr, s, p + 1)
    BY <1>1, Zenon
  <1> QED
    BY <1>1, <1>2, Moves

LEMMA UriQuitsKeeps ==
  ASSUME LineInv, NEW s \in Reading \ {"uri"}, At(s), UriQuits
  PROVE  LineInv'
  <1> DEFINE q == Point(r, "args_start", p + 1)
  <1>1. s \in States /\ "uri" \in States /\ {"quoted_uri", "complex_uri"} \subseteq Flags
    BY DEF States, Reading, Flags
  <1>2. /\ busy /\ p <= Len(buf) /\ p \in Nat \ {0} /\ r.ptr \in Ptrs /\ r \in Requests
        /\ Place(r.ptr, s, p)
    BY <1>1, Here
  <1>3. q \in Requests /\ q.ptr = [r.ptr EXCEPT !["args_start"] = p + 1]
    BY <1>2, PointFacts DEF Pointers
  <1>4. \/ Go("uri", Flag(r, "quoted_uri")) \/ Go("uri", Flag(r, "complex_uri"))
        \/ Go("uri", q)
    BY DEF UriQuits
  <1> HIDE DEF q
  <1>5. Place(r.ptr, "uri", p + 1) /\ Place(q.ptr, "uri", p + 1)
    BY <1>2, <1>3, UriQuitsAt
  <1> QED
    BY <1>1, <1>2, <1>3, <1>4, <1>5, Moves, FlagMoves

LEMMA AfterSlashInUriKeeps == ASSUME LineInv, AfterSlashInUri PROVE LineInv'
  <1>1. /\ At("after_slash_in_uri") /\ "after_slash_in_uri" \in Reading \ {"uri"}
        /\ {"after_slash_in_uri", "check_uri", "uri"} \subseteq States
        /\ {"complex_uri", "plus_in_uri"} \subseteq Flags
    BY DEF AfterSlashInUri, States, Reading, Flags
  <1>2. /\ busy /\ p <= Len(buf) /\ p \in Nat \ {0} /\ r.ptr \in Ptrs /\ r \in Requests
        /\ Place(r.ptr, "after_slash_in_uri", p)
    BY <1>1, Here
  <1>3. \/ Go("check_uri", r)
        \/ UriEnds("check_uri_http_09")
        \/ UriQuits
        \/ Go("uri", Flag(r, "complex_uri"))
        \/ Go("after_slash_in_uri", Flag(r, "plus_in_uri"))
    BY DEF AfterSlashInUri
  <1>4. /\ Place(r.ptr, "check_uri", p + 1) /\ Place(r.ptr, "after_slash_in_uri", p + 1)
        /\ Place(r.ptr, "uri", p + 1)
    BY <1>1, <1>2, FromSlash, UriQuitsAt
  <1>5. CASE Go("check_uri", r)
    BY <1>1, <1>2, <1>4, <1>5, Moves
  <1>6. CASE UriEnds("check_uri_http_09")
    BY <1>1, <1>6, UriEndsKeeps
  <1>7. CASE UriQuits
    BY <1>1, <1>7, UriQuitsKeeps
  <1>8. CASE Go("uri", Flag(r, "complex_uri"))
    BY <1>1, <1>2, <1>4, <1>8, FlagMoves
  <1>9. CASE Go("after_slash_in_uri", Flag(r, "plus_in_uri"))
    BY <1>1, <1>2, <1>4, <1>9, FlagMoves
  <1> QED
    BY <1>3, <1>5, <1>6, <1>7, <1>8, <1>9

LEMMA CheckUriKeeps == ASSUME LineInv, CheckUri PROVE LineInv'
  <1> DEFINE q0 == Point(r, "uri_ext", 0)
             q == Point(r, "uri_ext", p + 1)
  <1>1. /\ At("check_uri") /\ "check_uri" \in Reading \ {"uri"}
        /\ {"after_slash_in_uri", "check_uri"} \subseteq States
        /\ "plus_in_uri" \in Flags
    BY DEF CheckUri, States, Reading, Flags
  <1>2. /\ busy /\ p <= Len(buf) /\ p \in Nat \ {0} /\ r.ptr \in Ptrs /\ r \in Requests
        /\ Place(r.ptr, "check_uri", p)
    BY <1>1, Here
  <1>3. /\ q0 \in Requests /\ q0.ptr = [r.ptr EXCEPT !["uri_ext"] = 0]
        /\ q \in Requests /\ q.ptr = [r.ptr EXCEPT !["uri_ext"] = p + 1]
    BY <1>2, PointFacts DEF Pointers
  <1>4. \/ Go("check_uri", r)
        \/ UriEnds("check_uri_http_09")
        \/ UriQuits
        \/ Go("after_slash_in_uri", q0)
        \/ Go("check_uri", q)
        \/ Go("check_uri", Flag(r, "plus_in_uri"))
    BY DEF CheckUri
  <1> HIDE DEF q0, q
  <1>5. /\ Place(r.ptr, "check_uri", p + 1) /\ Place(q0.ptr, "after_slash_in_uri", p + 1)
        /\ Place(q.ptr, "check_uri", p + 1)
    BY <1>2, <1>3, FromCheckUri
  <1>6. CASE Go("check_uri", r)
    BY <1>1, <1>2, <1>5, <1>6, Moves
  <1>7. CASE UriEnds("check_uri_http_09")
    BY <1>1, <1>7, UriEndsKeeps
  <1>8. CASE UriQuits
    BY <1>1, <1>8, UriQuitsKeeps
  <1>9. CASE Go("after_slash_in_uri", q0) \/ Go("check_uri", q)
    BY <1>1, <1>2, <1>3, <1>5, <1>9, Moves
  <1>10. CASE Go("check_uri", Flag(r, "plus_in_uri"))
    BY <1>1, <1>2, <1>5, <1>10, FlagMoves
  <1> QED
    BY <1>4, <1>6, <1>7, <1>8, <1>9, <1>10

LEMMA UriKeeps == ASSUME LineInv, Uri PROVE LineInv'
  <1>1. /\ At("uri") /\ "uri" \in Reading /\ "uri" \in States /\ "complex_uri" \in Flags
    BY DEF Uri, States, Reading, Flags
  <1>2. /\ busy /\ p <= Len(buf) /\ p \in Nat \ {0} /\ r.ptr \in Ptrs /\ r \in Requests
        /\ Place(r.ptr, "uri", p)
    BY <1>1, Here
  <1>3. Go("uri", r) \/ UriEnds("http_09") \/ Go("uri", Flag(r, "complex_uri"))
    BY DEF Uri
  <1>4. Place(r.ptr, "uri", p + 1)
    BY <1>2, FromUri
  <1> QED
    BY <1>1, <1>2, <1>3, <1>4, Moves, UriEndsKeeps, FlagMoves

(* In the protocol no pointer is set, and the line may end wherever it can. *)
LEMMA ProtocolPlaces ==
  ASSUME LineInv, NEW s \in Protocol, At(s)
  PROVE  /\ busy /\ p <= Len(buf) /\ r \in Requests /\ Near(r.ptr, Len(buf) + 1)
         /\ \A t \in Protocol : Place(r.ptr, t, p + 1)
         /\ Complete(r.ptr, p)
  <1>1. s \in States
    BY DEF States, Protocol
  <1> QED
    BY <1>1, Here, InProtocol

LEMMA DigitMoves ==
  ASSUME LineInv, busy, p <= Len(buf), NEW v \in 0 .. WordMod - 1, NEW s \in States,
         Place(r.ptr, s, p + 1),
         Go(s, [r EXCEPT !.major = v]) \/ Go(s, [r EXCEPT !.minor = v])
  PROVE  LineInv'
  <1> DEFINE qa == [r EXCEPT !.major = v]
             qb == [r EXCEPT !.minor = v]
  <1>1. r \in Requests
    BY DEF LineInv, Typed
  <1>2. qa \in Requests /\ qa.ptr = r.ptr /\ qb \in Requests /\ qb.ptr = r.ptr
    BY <1>1, MajorFacts
  <1>3. Go(s, qa) \/ Go(s, qb)
    OBVIOUS
  <1> HIDE DEF qa, qb
  <1>4. Place(qa.ptr, s, p + 1) /\ Place(qb.ptr, s, p + 1)
    BY <1>2, Zenon
  <1> QED
    BY <1>2, <1>3, <1>4, Moves

LEMMA MajorKeeps == ASSUME LineInv, FirstMajorDigit \/ MajorDigit PROVE LineInv'
  <1>1. /\ {"first_major_digit", "major_digit", "first_minor_digit"} \subseteq States
        /\ {"first_major_digit", "major_digit", "first_minor_digit"} \subseteq Protocol
    BY DEF States, Protocol
  <1>2. At("first_major_digit") \/ At("major_digit")
    BY DEF FirstMajorDigit, MajorDigit
  <1>3. /\ busy /\ p <= Len(buf) /\ r \in Requests /\ Near(r.ptr, Len(buf) + 1)
        /\ Place(r.ptr, "major_digit", p + 1) /\ Place(r.ptr, "first_minor_digit", p + 1)
    BY <1>1, <1>2, ProtocolPlaces
  <1>4. \/ Go("first_minor_digit", r) \/ Invalid(r)
        \/ ch \in Digit /\ Go("major_digit", [r EXCEPT !.major = Value(ch)])
        \/ ch \in Digit /\ Go("major_digit", [r EXCEPT !.major = Shifted(r.major, ch)])
    BY DEF FirstMajorDigit, MajorDigit
  <1>5. ch \in Digit => /\ Value(ch) \in 0 .. WordMod - 1
                        /\ Shifted(r.major, ch) \in 0 .. WordMod - 1
    BY <1>3, ShiftedFacts DEF Requests
  <1>6. CASE Go("first_minor_digit", r) \/ Invalid(r)
    BY <1>1, <1>3, <1>6, Moves, Refuses
  <1>7. CASE ch \in Digit /\ Go("major_digit", [r EXCEPT !.major = Value(ch)])
    BY <1>1, <1>3, <1>5, <1>7, DigitMoves
  <1>8. CASE ch \in Digit /\ Go("major_digit", [r EXCEPT !.major = Shifted(r.major, ch)])
    BY <1>1, <1>3, <1>5, <1>8, DigitMoves
  <1> QED
    BY <1>4, <1>6, <1>7, <1>8

LEMMA MinorKeeps == ASSUME LineInv, FirstMinorDigit \/ MinorDigit PROVE LineInv'
  <1> DEFINE S == {"first_minor_digit", "minor_digit", "spaces_after_digit", "almost_done"}
  <1>1. S \subseteq States /\ S \subseteq Protocol
    BY DEF States, Protocol
  <1>2. At("first_minor_digit") \/ At("minor_digit")
    BY DEF FirstMinorDigit, MinorDigit
  <1>3. /\ busy /\ p <= Len(buf) /\ r \in Requests /\ Near(r.ptr, Len(buf) + 1)
        /\ \A t \in S : Place(r.ptr, t, p + 1)
        /\ Complete(r.ptr, p)
    BY <1>1, <1>2, ProtocolPlaces
  <1>4. \/ Go("almost_done", r) \/ Done(r) \/ Go("spaces_after_digit", r) \/ Invalid(r)
        \/ ch \in Digit /\ Go("minor_digit", [r EXCEPT !.minor = Value(ch)])
        \/ ch \in Digit /\ Go("minor_digit", [r EXCEPT !.minor = Shifted(r.minor, ch)])
    BY DEF FirstMinorDigit, MinorDigit
  <1>5. ch \in Digit => /\ Value(ch) \in 0 .. WordMod - 1
                        /\ Shifted(r.minor, ch) \in 0 .. WordMod - 1
    BY <1>3, ShiftedFacts DEF Requests
  <1>6. CASE Go("almost_done", r) \/ Go("spaces_after_digit", r)
    BY <1>1, <1>3, <1>6, Moves
  <1>7. CASE Done(r)
    BY <1>3, <1>7, FinishesAtLf
  <1>8. CASE Invalid(r)
    BY <1>3, <1>8, Refuses
  <1>9. CASE ch \in Digit /\ Go("minor_digit", [r EXCEPT !.minor = Value(ch)])
    BY <1>1, <1>3, <1>5, <1>9, DigitMoves
  <1>10. CASE ch \in Digit /\ Go("minor_digit", [r EXCEPT !.minor = Shifted(r.minor, ch)])
    BY <1>1, <1>3, <1>5, <1>10, DigitMoves
  <1> QED
    BY <1>4, <1>6, <1>7, <1>8, <1>9, <1>10

LEMMA SpacesAfterDigitKeeps == ASSUME LineInv, SpacesAfterDigit PROVE LineInv'
  <1>1. /\ At("spaces_after_digit")
        /\ {"spaces_after_digit", "almost_done"} \subseteq States \cap Protocol
    BY DEF SpacesAfterDigit, States, Protocol
  <1>2. /\ busy /\ p <= Len(buf) /\ r \in Requests /\ Near(r.ptr, Len(buf) + 1)
        /\ \A t \in {"spaces_after_digit", "almost_done"} : Place(r.ptr, t, p + 1)
        /\ Complete(r.ptr, p)
    BY <1>1, ProtocolPlaces
  <1>3. \/ Go("spaces_after_digit", r) \/ Go("almost_done", r) \/ Done(r) \/ Invalid(r)
    BY DEF SpacesAfterDigit
  <1> QED
    BY <1>1, <1>2, <1>3, Moves, FinishesAtLf, Refuses

LEMMA AlmostDoneKeeps == ASSUME LineInv, AlmostDone PROVE LineInv'
  <1> DEFINE q == Point(r, "request_end", p - 1)
  <1>1. At("almost_done") /\ "almost_done" \in States
    BY DEF AlmostDone, States
  <1>2. /\ p \in Nat \ {0} /\ r.ptr \in Ptrs /\ r \in Requests
        /\ Near(r.ptr, Len(buf) + 1) /\ p - 1 \in Nat /\ p - 1 <= Len(buf) + 1
        /\ Len(buf) + 1 \in Nat
    BY <1>1, Here DEF LineInv, Typed
  <1>3. q \in Requests /\ q.ptr = [r.ptr EXCEPT !["request_end"] = p - 1]
    BY <1>2, PointFacts DEF Pointers
  <1>4. Done(q) \/ Invalid(q)
    BY DEF AlmostDone
  <1> HIDE DEF q
  <1>5. Near(q.ptr, Len(buf) + 1)
    BY <1>2, <1>3, PointHere DEF Pointers
  <1> QED
    BY <1>1, <1>3, <1>4, <1>5, FinishesAtCr, Refuses

LEMMA StepKeeps == ASSUME LineInv, Step PROVE LineInv'
  BY StartKeeps, MethodKeeps, SpacesBeforeUriKeeps, SchemaKeeps, SlashesKeep, HttpKeeps,
     HostStartKeeps, HostKeeps, HostIpLiteralKeeps, PortKeeps, HostHttp09Keeps,
     CheckUriHttp09Keeps, Http09Keeps, AfterSlashInUriKeeps, CheckUriKeeps, UriKeeps,
     MajorKeeps, MinorKeeps, SpacesAfterDigitKeeps, AlmostDoneKeeps, Zenon
  DEF Step

-----------------------------------------------------------------------------
(* Between the calls *)

LEMMA LineStarts == Init => LineInv
  <1> SUFFICES ASSUME Init PROVE LineInv
    OBVIOUS
  <1> USE DEF Init
  <1>1. NewRequest.ptr = [x \in Pointers |-> 0] /\ NewRequest.state = "start"
    BY DEF NewRequest
  <1>2. NewRequest \in Requests
    BY BufAssumption DEF NewRequest, Requests, Ptrs, States
  <1>3. buf \in Seq(Char) /\ Len(buf) = 0 /\ BufSize \in Nat
    BY BufAssumption
  <1>4. Near(r.ptr, Len(buf) + 1)
    BY <1>1, <1>3 DEF Near
  <1>5. Place(r.ptr, "start", 1)
    BY <1>1 DEF Place, Near, Begun, HostPlace, UriPlace, Inside, Pointers, Early, InAuthority,
       Reading, Unquit, Protocol, AfterUri
  <1>6. Typed
    <2>1. Len(buf) <= BufSize /\ pos \in 1 .. Len(buf) + 1 /\ p \in 1 .. Len(buf) + 1
      BY <1>3, BufAssumption
    <2>2. r \in Requests /\ busy \in BOOLEAN /\ state \in States
      BY <1>2 DEF States
    <2> QED
      BY <1>3, <1>4, <2>1, <2>2 DEF Typed
  <1>7. Places
    BY <1>1, <1>5 DEF Places, Pending
  <1> QED
    BY <1>6, <1>7 DEF LineInv

LEMMA SentIsChar ==
  ASSUME NEW c \in Clients, NEW n \in Nat, NEW b \in Sends(c, n)
  PROVE  b \in Char
  <1>1. c.opening \in Seq(Char) /\ c.alphabet \subseteq Char
    BY ClientAssumption
  <1>2. CASE n < Len(c.opening)
    <2>1. n + 1 \in 1 .. Len(c.opening) /\ b = c.opening[n + 1]
      BY <1>1, <1>2 DEF Sends
    <2> QED
      BY <1>1, <2>1
  <1>3. CASE ~ n < Len(c.opening)
    BY <1>1, <1>3 DEF Sends
  <1> QED
    BY <1>2, <1>3

LEMMA ReceiveKeeps == ASSUME LineInv, Receive PROVE LineInv'
  <1>1. PICK b \in Sends(client, Len(buf)) : buf' = Append(buf, b)
    BY DEF Receive
  <1>2. b \in Char
    BY <1>1, SentIsChar DEF LineInv, Typed
  <1>3. /\ buf' \in Seq(Char) /\ Len(buf') = Len(buf) + 1 /\ Len(buf') <= BufSize
        /\ Len(buf) \in Nat
    BY <1>1, <1>2, BufAssumption DEF LineInv, Typed, Receive
  <1>4. Near(r.ptr, Len(buf') + 1)
    <2>1. Near(r.ptr, Len(buf) + 1) /\ r.ptr \in Ptrs
      BY DEF LineInv, Typed, Requests
    <2> QED
      BY <2>1, <1>3, NearMore
  <1>5. Typed'
    BY <1>3, <1>4 DEF LineInv, Typed, Receive
  <1>6. Places'
    BY DEF LineInv, Places, Receive, Pending
  <1> QED
    BY <1>5, <1>6 DEF LineInv

LEMMA EnterKeeps == ASSUME LineInv, Enter PROVE LineInv'
  <1>1. Typed'
    BY DEF LineInv, Typed, Enter, ioVars, Requests
  <1>2. Places'
    BY DEF LineInv, Typed, Places, Enter, ioVars, Pending
  <1> QED
    BY <1>1, <1>2 DEF LineInv

LEMMA AgainKeeps == ASSUME LineInv, Again PROVE LineInv'
  <1> DEFINE q == [r EXCEPT !.state = state]
  <1>1. q \in Requests /\ q.ptr = r.ptr /\ q.state = state
    BY DEF LineInv, Typed, Requests
  <1>2. /\ busy /\ pos' = p /\ r' = q /\ rc' = "AGAIN" /\ busy' = FALSE
        /\ UNCHANGED <<client, buf, answer, p, state>>
    BY DEF Again, ioVars
  <1> HIDE DEF q
  <1>3. Near(r'.ptr, Len(buf') + 1)
    BY <1>1, <1>2 DEF LineInv, Typed
  <1>4. Typed'
    BY <1>1, <1>2, <1>3 DEF LineInv, Typed
  <1>5. Place(r'.ptr, r'.state, pos')
    BY <1>1, <1>2 DEF LineInv, Places
  <1>6. Places'
    BY <1>2, <1>5 DEF Places, Pending
  <1> QED
    BY <1>4, <1>6 DEF LineInv

(* http_process_request_line leaves the parser alone. *)
LEMMA AnswerKeeps ==
  ASSUME LineInv,
         NEW a \in {"BAD_REQUEST", "INTERNAL_SERVER_ERROR", "simple", "headers"}, Answer(a)
  PROVE  LineInv'
  <1>1. Typed'
    BY DEF LineInv, Typed, Answer
  <1>2. Places'
    BY DEF LineInv, Places, Answer, Pending
  <1> QED
    BY <1>1, <1>2 DEF LineInv

LEMMA RestKeeps == ASSUME LineInv, UNCHANGED vars PROVE LineInv'
  <1>1. Typed'
    BY DEF LineInv, Typed, vars, ioVars
  <1>2. Places'
    BY DEF LineInv, Places, vars, ioVars, Pending
  <1> QED
    BY <1>1, <1>2 DEF LineInv

-----------------------------------------------------------------------------
(* Where a line ends *)

Blank == {CR, LF}

(* What the parser has read when it is in the state s at the byte c of the *)
(* buffer u, b being r->request_start: blank lines, or those and then a    *)
(* part of a line that has no LF and, but for its last byte, no CR either. *)
Read(u, b, s, c) ==
  /\ s = "start" => \A j \in 1 .. c - 1 : u[j] \in Blank
  /\ s # "start" =>
       /\ b \in 1 .. c - 1 /\ u[b] \notin Blank
       /\ \A j \in 1 .. b - 1 : u[j] \in Blank
       /\ \A j \in b .. c - 1 : u[j] # LF
       /\ s = "almost_done" <=> u[c - 1] = CR

(* What it has when the line has ended, e being b->pos. *)
Ended(u, f, e) ==
  LET b == f["request_start"] IN
  /\ b \in 1 .. e - 2 /\ u[b] \notin Blank
  /\ \A j \in 1 .. b - 1 : u[j] \in Blank
  /\ \A j \in b .. e - 2 : u[j] # LF
  /\ u[e - 1] = LF
  /\ f["request_end"] = IF u[e - 2] = CR THEN e - 2 ELSE e - 1

ReadInv ==
  /\ busy => pos <= p /\ Read(buf, r.ptr["request_start"], state, p)
  /\ ~ busy /\ Pending => Read(buf, r.ptr["request_start"], r.state, pos)
  /\ Parsed => Ended(buf, r.ptr, pos)

Inner == States \ {"start", "almost_done"}

LEMMA ReadMore ==
  ASSUME NEW u, NEW b \in Nat, NEW c \in Nat \ {0}, NEW s \in Inner, NEW t \in Inner,
         Read(u, b, s, c), u[c] \notin Blank
  PROVE  Read(u, b, t, c + 1)
  BY DEF Read, Inner, Blank, CR, LF

LEMMA ReadCr ==
  ASSUME NEW u, NEW b \in Nat, NEW c \in Nat \ {0}, NEW s \in Inner,
         Read(u, b, s, c), u[c] = CR
  PROVE  Read(u, b, "almost_done", c + 1)
  BY DEF Read, Inner, Blank, CR, LF

LEMMA ReadSame ==
  ASSUME NEW u, NEW b \in Nat, NEW c \in Nat \ {0}, NEW s \in Inner, NEW t \in Inner,
         Read(u, b, s, c)
  PROVE  Read(u, b, t, c)
  BY DEF Read, Inner

LEMMA ReadStart ==
  ASSUME NEW u, NEW b \in Nat, NEW c \in Nat \ {0}, Read(u, b, "start", c)
  PROVE  /\ u[c] \in Blank => Read(u, c, "start", c + 1)
         /\ u[c] \notin Blank => Read(u, c, "method", c + 1)
  BY DEF Read, Blank, CR, LF

LEMMA EndsLf ==
  ASSUME NEW u, NEW f \in Ptrs, NEW c \in Nat \ {0}, NEW s \in Inner,
         Read(u, f["request_start"], s, c), u[c] = LF, f["request_end"] = c
  PROVE  Ended(u, f, c + 1)
  BY DEF Read, Ended, Inner, Ptrs, Pointers

LEMMA EndsCr ==
  ASSUME NEW u, NEW f \in Ptrs, NEW c \in Nat \ {0},
         Read(u, f["request_start"], "almost_done", c), u[c] = LF,
         f["request_end"] = c - 1
  PROVE  Ended(u, f, c + 1)
  BY DEF Read, Ended, Ptrs, Pointers

(* A request in which the line has not ended, and its start has not moved *)
Same(q) ==
  /\ q \in Requests
  /\ q.ptr["request_start"] = r.ptr["request_start"]
  /\ q.ptr["request_end"] = 0

LEMMA SameHere ==
  ASSUME LineInv, ReadInv, NEW s \in States, At(s)
  PROVE  /\ Same(r) /\ busy /\ p <= Len(buf) /\ p \in Nat \ {0} /\ state = s
         /\ r.ptr["request_start"] \in Nat
         /\ Read(buf, r.ptr["request_start"], s, p)
  <1>1. r \in Requests /\ r.ptr \in Ptrs /\ Place(r.ptr, s, p) /\ p \in Nat \ {0}
    BY Here
  <1>2. r.ptr["request_start"] \in Nat /\ r.ptr["request_end"] = 0
    BY <1>1 DEF Place, Begun, Ptrs, Pointers
  <1> QED
    BY <1>1, <1>2 DEF Same, ReadInv, At

LEMMA SamePoint ==
  ASSUME NEW q, Same(q), NEW x \in Pointers \ {"request_start", "request_end"}, NEW v \in Nat
  PROVE  Same(Point(q, x, v))
  <1>1. Point(q, x, v) \in Requests /\ Point(q, x, v).ptr = [q.ptr EXCEPT ![x] = v]
    BY PointFacts DEF Same
  <1>2. q.ptr \in Ptrs /\ {"request_start", "request_end"} \subseteq Pointers
    BY DEF Same, Requests, Pointers
  <1> QED
    BY <1>1, <1>2 DEF Same, Ptrs

LEMMA SameFlag ==
  ASSUME NEW q, Same(q), NEW x \in Flags
  PROVE  Same(Flag(q, x)) /\ Same(Nine(q))
  <1>1. Flag(q, x) \in Requests /\ Flag(q, x).ptr = q.ptr
    BY FlagFacts DEF Same
  <1>2. Nine(q) \in Requests /\ Nine(q).ptr = q.ptr
    BY NineFacts DEF Same
  <1> QED
    BY <1>1, <1>2 DEF Same

LEMMA SameNumber ==
  ASSUME NEW q, Same(q), NEW v \in 0 .. WordMod - 1
  PROVE  Same([q EXCEPT !.major = v]) /\ Same([q EXCEPT !.minor = v])
  <1>1. /\ [q EXCEPT !.major = v] \in Requests /\ [q EXCEPT !.major = v].ptr = q.ptr
        /\ [q EXCEPT !.minor = v] \in Requests /\ [q EXCEPT !.minor = v].ptr = q.ptr
    BY MajorFacts DEF Same
  <1> QED
    BY <1>1 DEF Same

(* The ways on from a byte in the line *)
LEMMA ReadsOn ==
  ASSUME LineInv, ReadInv, NEW s \in Inner, At(s), NEW t \in Inner, NEW q, Same(q),
         ch \notin Blank, Go(t, q)
  PROVE  ReadInv'
  <1>1. /\ p \in Nat \ {0} /\ r.ptr["request_start"] \in Nat /\ busy
        /\ Read(buf, r.ptr["request_start"], s, p) /\ pos <= p /\ pos \in Nat /\ Pending
    BY SameHere DEF Inner, ReadInv, LineInv, Typed, Places
  <1>2. Read(buf, r.ptr["request_start"], t, p + 1)
    BY <1>1, ReadMore DEF ch
  <1> QED
    BY <1>1, <1>2 DEF ReadInv, Go, ioVars, Same, Parsed, Pending

LEMMA ReadsCr ==
  ASSUME LineInv, ReadInv, NEW s \in Inner, At(s), NEW q, Same(q),
         ch = CR, Go("almost_done", q)
  PROVE  ReadInv'
  <1>1. /\ p \in Nat \ {0} /\ r.ptr["request_start"] \in Nat /\ busy
        /\ Read(buf, r.ptr["request_start"], s, p) /\ pos <= p /\ pos \in Nat /\ Pending
    BY SameHere DEF Inner, ReadInv, LineInv, Typed, Places
  <1>2. Read(buf, r.ptr["request_start"], "almost_done", p + 1)
    BY <1>1, ReadCr DEF ch
  <1> QED
    BY <1>1, <1>2 DEF ReadInv, Go, ioVars, Same, Parsed, Pending

LEMMA ReadsAgain ==
  ASSUME LineInv, ReadInv, NEW s \in Inner, At(s), NEW t \in Inner, NEW q, Same(q),
         GoSame(t, q)
  PROVE  ReadInv'
  <1>1. /\ p \in Nat \ {0} /\ r.ptr["request_start"] \in Nat /\ busy
        /\ Read(buf, r.ptr["request_start"], s, p) /\ pos <= p /\ Pending
    BY SameHere DEF Inner, ReadInv, LineInv, Places
  <1>2. Read(buf, r.ptr["request_start"], t, p)
    BY <1>1, ReadSame
  <1> QED
    BY <1>1, <1>2 DEF ReadInv, GoSame, ioVars, Same, Parsed, Pending

LEMMA ReadsNoMore ==
  ASSUME NEW code \in {"INVALID_METHOD", "INVALID_REQUEST"}, NEW q, Fail(code, q)
  PROVE  ReadInv'
  BY DEF ReadInv, Fail, Parsed, Pending

LEMMA ReadsLf ==
  ASSUME LineInv, ReadInv, NEW s \in Inner, At(s), NEW q, Same(q), ch = LF, Done(q)
  PROVE  ReadInv'
  <1>1. /\ p \in Nat \ {0} /\ r.ptr["request_start"] \in Nat
        /\ Read(buf, r.ptr["request_start"], s, p) /\ q \in Requests /\ q.ptr \in Ptrs
        /\ EndOf(q) = p
    BY SameHere DEF Inner, Same, EndOf, Requests
  <1>2. /\ r'.ptr = [q.ptr EXCEPT !["request_end"] = p] /\ r' \in Requests
        /\ pos' = p + 1 /\ busy' = FALSE /\ rc' \in {"OK", "INVALID_09_METHOD"}
        /\ buf' = buf
    BY <1>1, DoneFacts
  <1>3. /\ r'.ptr \in Ptrs /\ r'.ptr["request_end"] = p
        /\ r'.ptr["request_start"] = r.ptr["request_start"]
    BY <1>1, <1>2 DEF Requests, Ptrs, Pointers, Same
  <1>4. Ended(buf, r'.ptr, p + 1)
    BY <1>1, <1>3, EndsLf DEF ch
  <1> QED
    BY <1>2, <1>4 DEF ReadInv, Pending

(* All of them *)
Ways(q) ==
  \/ ch \notin Blank /\ \E t \in Inner : Go(t, q)
  \/ \E t \in Inner : GoSame(t, q)
  \/ ch = CR /\ Go("almost_done", q)
  \/ ch = LF /\ Done(q)
  \/ \E code \in {"INVALID_METHOD", "INVALID_REQUEST"} : Fail(code, q)

LEMMA WaysRead ==
  ASSUME LineInv, ReadInv, NEW s \in Inner, At(s), NEW q, Same(q), Ways(q)
  PROVE  ReadInv'
  BY ReadsOn, ReadsCr, ReadsAgain, ReadsNoMore, ReadsLf, Zenon DEF Ways

LEMMA Bytes ==
  /\ CR # LF /\ CR \in Unusual /\ LF \in Unusual
  /\ \A b \in Blank :
       /\ b \notin MethodChar \cup Letter \cup Digit \cup Mark \cup {SP, NUL}
       /\ b \notin {".", "-", "/", ":", "[", "]", "_", "~", "%", "?", "#", "+", "H", "T", "P"}
  BY DEF CR, LF, SP, NUL, Blank, Unusual, MethodChar, Letter, Upper, Lower, Digit, Mark

LEMMA StartReads == ASSUME LineInv, ReadInv, Start PROVE ReadInv'
  <1> DEFINE q == Point(r, "request_start", p)
  <1>1. At("start") /\ "start" \in States /\ "request_start" \in Pointers
    BY DEF Start, States, Pointers
  <1>2. /\ p \in Nat \ {0} /\ r.ptr["request_start"] \in Nat /\ pos <= p /\ pos \in Nat
        /\ Read(buf, r.ptr["request_start"], "start", p) /\ r \in Requests /\ busy
        /\ r.ptr \in Ptrs /\ Pending
    BY <1>1, SameHere DEF ReadInv, LineInv, Typed, Places, Same, Requests
  <1>3. q.ptr["request_start"] = p
    <2>1. q.ptr = [r.ptr EXCEPT !["request_start"] = p]
      BY <1>1, <1>2, PointFacts
    <2> QED
      BY <1>1, <1>2, <2>1 DEF Ptrs
  <1>4. \/ ch \in Blank /\ Go("start", q)
        \/ ch \notin Blank /\ Go("method", q)
        \/ Fail("INVALID_METHOD", q)
    BY Bytes DEF Start, Blank
  <1> HIDE DEF q
  <1>5. /\ ch \in Blank => Read(buf, p, "start", p + 1)
        /\ ch \notin Blank => Read(buf, p, "method", p + 1)
    BY <1>2, ReadStart DEF ch
  <1>6. CASE \/ ch \in Blank /\ Go("start", q)
             \/ ch \notin Blank /\ Go("method", q)
    <2>1. Read(buf, p, state', p + 1)
      BY <1>5, <1>6 DEF Go
    <2>2. /\ r' = q /\ p' = p + 1
          /\ pos' = pos /\ busy' = busy /\ rc' = rc /\ buf' = buf
      BY <1>6 DEF Go, ioVars
    <2>3. pos' <= p' /\ busy' /\ Pending'
      BY <1>2, <2>2 DEF Pending
    <2> QED
      BY <1>3, <2>1, <2>2, <2>3 DEF ReadInv, Parsed, Pending
  <1> QED
    BY <1>4, <1>6, ReadsNoMore

LEMMA MethodReads == ASSUME LineInv, ReadInv, Method PROVE ReadInv'
  <1> DEFINE name == SubSeq(buf, r.ptr["request_start"], p - 1)
             m == IF name \in KnownMethods THEN name ELSE r.method
             q1 == Point(r, "method_end", p - 1)
             q == [q1 EXCEPT !.method = m]
  <1>1. /\ At("method") /\ {"method", "spaces_before_uri"} \subseteq Inner
        /\ "method_end" \in Pointers \ {"request_start", "request_end"}
    BY DEF Method, Inner, States, Pointers
  <1>2. Same(r) /\ p - 1 \in Nat /\ r.method \in KnownMethods \cup {Unknown}
    BY <1>1, SameHere DEF Inner, Same, Requests
  <1>3. Same(q1) /\ q1.method = r.method
    BY <1>1, <1>2, SamePoint DEF Same, Requests, Point
  <1>4. m \in KnownMethods \cup {Unknown}
    BY <1>2
  <1>5. Ways(q) \/ Ways(r)
    BY <1>1, <1>3, Bytes DEF Method, Ways
  <1> HIDE DEF q1, m
  <1>6. Same(q)
    BY <1>3, <1>4 DEF Same, Requests
  <1> HIDE DEF q
  <1> QED
    BY <1>1, <1>2, <1>5, <1>6, WaysRead

(* An action that goes on with r, or with one pointer or flag more *)
LEMMA PointWays ==
  ASSUME LineInv, ReadInv, NEW s \in Inner, At(s),
         NEW x \in Pointers \ {"request_start", "request_end"}, NEW v \in Nat,
         Ways(r) \/ Ways(Point(r, x, v))
  PROVE  ReadInv'
  <1>1. Same(r)
    BY SameHere DEF Inner
  <1> QED
    BY <1>1, SamePoint, WaysRead

LEMMA FlagWays ==
  ASSUME LineInv, ReadInv, NEW s \in Inner, At(s), NEW x \in Flags,
         Ways(r) \/ Ways(Flag(r, x))
  PROVE  ReadInv'
  <1>1. Same(r)
    BY SameHere DEF Inner
  <1> QED
    BY <1>1, SameFlag, WaysRead

LEMMA SpacesBeforeUriReads == ASSUME LineInv, ReadInv, SpacesBeforeUri PROVE ReadInv'
  <1>1. /\ At("spaces_before_uri")
        /\ {"spaces_before_uri", "after_slash_in_uri", "schema"} \subseteq Inner
        /\ {"uri_start", "schema_start"} \subseteq Pointers \ {"request_start", "request_end"}
    BY DEF SpacesBeforeUri, Inner, States, Pointers
  <1>2. p \in Nat
    BY <1>1, SameHere DEF Inner
  <1>3. Ways(r) \/ Ways(Point(r, "uri_start", p)) \/ Ways(Point(r, "schema_start", p))
    BY <1>1, Bytes DEF SpacesBeforeUri, Ways, Invalid
  <1> QED
    BY <1>1, <1>2, <1>3, PointWays

LEMMA SchemaReads == ASSUME LineInv, ReadInv, Schema PROVE ReadInv'
  <1>1. /\ At("schema") /\ {"schema", "schema_slash"} \subseteq Inner
        /\ "schema_end" \in Pointers \ {"request_start", "request_end"}
    BY DEF Schema, Inner, States, Pointers
  <1>2. p \in Nat
    BY <1>1, SameHere DEF Inner
  <1>3. Ways(r) \/ Ways(Point(r, "schema_end", p))
    BY <1>1, Bytes DEF Schema, Ways, Invalid
  <1> QED
    BY <1>1, <1>2, <1>3, PointWays

LEMMA ExpectReads ==
  ASSUME LineInv, ReadInv, NEW s \in Inner, NEW t \in Inner, NEW byte \in {"/", "T", "P"},
         Expect(s, byte, t)
  PROVE  ReadInv'
  <1>1. At(s) /\ Ways(r)
    BY Bytes DEF Expect, Ways, Invalid
  <1>2. Same(r)
    BY <1>1, SameHere DEF Inner
  <1> QED
    BY <1>1, <1>2, WaysRead

LEMMA LettersRead ==
  ASSUME LineInv, ReadInv,
         SchemaSlash \/ SchemaSlashSlash \/ HttpH \/ HttpHT \/ HttpHTT \/ HttpHTTP
  PROVE  ReadInv'
  <1>1. {"schema_slash", "schema_slash_slash", "host_start", "H", "HT", "HTT", "HTTP",
         "first_major_digit"} \subseteq Inner
    BY DEF Inner, States
  <1> QED
    BY <1>1, ExpectReads
    DEF SchemaSlash, SchemaSlashSlash, HttpH, HttpHT, HttpHTT, HttpHTTP

LEMMA SameSlash ==
  ASSUME NEW q, Same(q)
  PROVE  Same(SlashOfSchema(q))
  <1> DEFINE v == q.ptr["schema_end"]
             q1 == Point(q, "uri_start", v + 1)
  <1>1. /\ v + 1 \in Nat /\ v + 2 \in Nat
        /\ {"uri_start", "uri_end"} \subseteq Pointers \ {"request_start", "request_end"}
    BY DEF Same, Requests, Ptrs, Pointers
  <1>2. Same(q1)
    BY <1>1, SamePoint
  <1>3. SlashOfSchema(q) = Point(q1, "uri_end", v + 2)
    BY DEF SlashOfSchema
  <1> HIDE DEF q1, v
  <1>4. Same(Point(q1, "uri_end", v + 2))
    BY <1>1, <1>2, SamePoint
  <1> QED
    BY <1>3, <1>4

LEMMA HostEndsReads ==
  ASSUME LineInv, ReadInv, NEW s \in Inner, At(s), NEW q, Same(q), HostEnds(q)
  PROVE  ReadInv'
  <1> DEFINE h == Point(q, "host_end", p)
             hu == Point(h, "uri_start", p)
             hs == SlashOfSchema(h)
  <1>1. /\ {"port", "after_slash_in_uri", "host_http_09"} \subseteq Inner
        /\ {"host_end", "uri_start"} \subseteq Pointers \ {"request_start", "request_end"}
    BY DEF Inner, States, Pointers
  <1>2. p \in Nat
    BY SameHere DEF Inner
  <1>3. Same(h)
    BY <1>1, <1>2, SamePoint
  <1>4. Ways(h) \/ Ways(hu) \/ Ways(hs)
    BY <1>1, Bytes DEF HostEnds, Ways, Invalid
  <1> HIDE DEF h
  <1>5. Same(hu) /\ Same(hs)
    BY <1>1, <1>2, <1>3, SamePoint, SameSlash
  <1> HIDE DEF hu, hs
  <1> QED
    BY <1>3, <1>4, <1>5, WaysRead

LEMMA InHostReads ==
  ASSUME LineInv, ReadInv, NEW s \in Inner, At(s), NEW q, Same(q), InHost(q)
  PROVE  ReadInv'
  <1>1. HostEnds(q) \/ Ways(q)
    <2>1. "host" \in Inner
      BY DEF Inner, States
    <2> QED
      BY <2>1, Bytes DEF InHost, HostChar, Ways
  <1> QED
    BY <1>1, HostEndsReads, WaysRead

LEMMA HostReads ==
  ASSUME LineInv, ReadInv, HostStart \/ Host \/ HostEnd \/ HostIpLiteral
  PROVE  ReadInv'
  <1> DEFINE q == Point(r, "host_start", p)
  <1>1. /\ {"host_start", "host", "host_end", "host_ip_literal"} \subseteq Inner
        /\ "host_start" \in Pointers \ {"request_start", "request_end"}
    BY DEF Inner, States, Pointers
  <1>2. PICK s \in Inner : At(s)
    BY <1>1 DEF HostStart, Host, HostEnd, HostIpLiteral
  <1>3. Same(r) /\ Same(q)
    BY <1>1, <1>2, SameHere, SamePoint DEF Inner
  <1>4. CASE HostStart
    <2>1. Ways(q) \/ InHost(q)
      BY <1>1, <1>4, Bytes DEF HostStart, Ways
    <2> HIDE DEF q
    <2> QED
      BY <1>2, <1>3, <2>1, WaysRead, InHostReads
  <1>5. CASE Host
    BY <1>2, <1>3, <1>5, InHostReads DEF Host
  <1>6. CASE HostEnd
    BY <1>2, <1>3, <1>6, HostEndsReads DEF HostEnd
  <1>7. CASE HostIpLiteral
    <2>1. Ways(r)
      BY <1>1, <1>7, Bytes DEF HostIpLiteral, Ways, Invalid
    <2> QED
      BY <1>2, <1>3, <2>1, WaysRead
  <1> QED
    BY <1>4, <1>5, <1>6, <1>7

LEMMA PortReads == ASSUME LineInv, ReadInv, Port PROVE ReadInv'
  <1> DEFINE q == Point(r, "port_end", p)
             qu == Point(q, "uri_start", p)
             qs == SlashOfSchema(q)
  <1>1. /\ At("port") /\ {"port", "after_slash_in_uri", "host_http_09"} \subseteq Inner
        /\ {"port_end", "uri_start"} \subseteq Pointers \ {"request_start", "request_end"}
    BY DEF Port, Inner, States, Pointers
  <1>2. p \in Nat /\ Same(r)
    BY <1>1, SameHere DEF Inner
  <1>3. Same(q)
    BY <1>1, <1>2, SamePoint
  <1>4. Ways(r) \/ Ways(qu) \/ Ways(qs)
    BY <1>1, Bytes DEF Port, Ways, Invalid
  <1> HIDE DEF q
  <1>5. Same(qu) /\ Same(qs)
    BY <1>1, <1>2, <1>3, SamePoint, SameSlash
  <1> HIDE DEF qu, qs
  <1> QED
    BY <1>1, <1>2, <1>4, <1>5, WaysRead

LEMMA SpacesRead ==
  ASSUME LineInv, ReadInv, NEW s \in Inner, At(s), Spaces(s)
  PROVE  ReadInv'
  <1> DEFINE q == Point(r, "http_protocol", p)
             n == Nine(r)
  <1>1. /\ "H" \in Inner /\ "plus_in_uri" \in Flags
        /\ "http_protocol" \in Pointers \ {"request_start", "request_end"}
    BY DEF Inner, States, Pointers, Flags
  <1>2. p \in Nat /\ Same(r)
    BY SameHere DEF Inner
  <1>3. Same(q) /\ Same(n)
    BY <1>1, <1>2, SamePoint, SameFlag
  <1>4. Ways(r) \/ Ways(q) \/ Ways(n)
    BY <1>1, Bytes DEF Spaces, Ends09, Ways
  <1> HIDE DEF q, n
  <1> QED
    BY <1>2, <1>3, <1>4, WaysRead

LEMMA AfterUriReads ==
  ASSUME LineInv, ReadInv, HostHttp09 \/ CheckUriHttp09 \/ Http09
  PROVE  ReadInv'
  <1>1. /\ {"host_http_09", "check_uri_http_09", "http_09", "check_uri", "uri"} \subseteq Inner
        /\ "space_in_uri" \in Flags
    BY DEF Inner, States, Flags
  <1>2. PICK s \in Inner : At(s) /\ (Spaces(s) \/ Ways(r) \/ Ways(Flag(r, "space_in_uri")))
    BY <1>1 DEF HostHttp09, CheckUriHttp09, Http09, Ways, Invalid
  <1> QED
    BY <1>1, <1>2, SpacesRead, FlagWays

LEMMA UriEndsReads ==
  ASSUME LineInv, ReadInv, NEW s \in Inner, At(s), NEW t \in Inner, UriEnds(t)
  PROVE  ReadInv'
  <1> DEFINE q == Point(r, "uri_end", p)
             n == Nine(q)
  <1>1. /\ "plus_in_uri" \in Flags
        /\ "uri_end" \in Pointers \ {"request_start", "request_end"}
    BY DEF Pointers, Flags
  <1>2. p \in Nat /\ Same(r)
    BY SameHere DEF Inner
  <1>3. Same(q)
    BY <1>1, <1>2, SamePoint
  <1>4. Ways(r) \/ Ways(q) \/ Ways(n)
    BY Bytes DEF UriEnds, Ends09, Ways, Invalid
  <1> HIDE DEF q
  <1>5. Same(n)
    BY <1>1, <1>3, SameFlag
  <1> HIDE DEF n
  <1> QED
    BY <1>2, <1>3, <1>4, <1>5, WaysRead

LEMMA UriQuitsReads ==
  ASSUME LineInv, ReadInv, NEW s \in Inner, At(s), UriQuits
  PROVE  ReadInv'
  <1> DEFINE q == Point(r, "args_start", p + 1)
             f1 == Flag(r, "quoted_uri")
             f2 == Flag(r, "complex_uri")
  <1>1. /\ "uri" \in Inner /\ {"quoted_uri", "complex_uri"} \subseteq Flags
        /\ "args_start" \in Pointers \ {"request_start", "request_end"}
    BY DEF Inner, States, Pointers, Flags
  <1>2. p + 1 \in Nat /\ Same(r)
    BY SameHere DEF Inner
  <1>3. Same(q) /\ Same(f1) /\ Same(f2)
    BY <1>1, <1>2, SamePoint, SameFlag
  <1>4. Ways(q) \/ Ways(f1) \/ Ways(f2)
    BY <1>1, Bytes DEF UriQuits, Ways
  <1> HIDE DEF q, f1, f2
  <1> QED
    BY <1>3, <1>4, WaysRead

LEMMA UriReads ==
  ASSUME LineInv, ReadInv, AfterSlashInUri \/ CheckUri \/ Uri
  PROVE  ReadInv'
  <1> DEFINE q0 == Point(r, "uri_ext", 0)
             q == Point(r, "uri_ext", p + 1)
             f1 == Flag(r, "complex_uri")
             f2 == Flag(r, "plus_in_uri")
  <1>1. /\ {"after_slash_in_uri", "check_uri", "uri", "check_uri_http_09", "http_09"}
              \subseteq Inner
        /\ {"complex_uri", "plus_in_uri"} \subseteq Flags
        /\ "uri_ext" \in Pointers \ {"request_start", "request_end"}
    BY DEF Inner, States, Pointers, Flags
  <1>2. PICK s \in Inner : At(s)
    BY <1>1 DEF AfterSlashInUri, CheckUri, Uri
  <1>3. p + 1 \in Nat /\ Same(r)
    BY <1>2, SameHere DEF Inner
  <1>4. Same(q0) /\ Same(q) /\ Same(f1) /\ Same(f2)
    BY <1>1, <1>3, SamePoint, SameFlag
  <1>5. \/ UriQuits \/ \E t \in Inner : UriEnds(t)
        \/ Ways(r) \/ Ways(q0) \/ Ways(q) \/ Ways(f1) \/ Ways(f2)
    <2>1. CASE AfterSlashInUri
      BY <1>1, <2>1, Bytes DEF AfterSlashInUri, Ways, Blank
    <2>2. CASE CheckUri
      BY <1>1, <2>2, Bytes DEF CheckUri, Ways, Blank
    <2>3. CASE Uri
      BY <1>1, <2>3, Bytes DEF Uri, Ways, Blank
    <2> QED
      BY <2>1, <2>2, <2>3
  <1> HIDE DEF q0, q, f1, f2
  <1>6. CASE UriQuits
    BY <1>2, <1>6, UriQuitsReads
  <1>7. CASE \E t \in Inner : UriEnds(t)
    BY <1>2, <1>7, UriEndsReads
  <1> QED
    BY <1>2, <1>3, <1>4, <1>5, <1>6, <1>7, WaysRead

LEMMA DigitsRead ==
  ASSUME LineInv, ReadInv,
         FirstMajorDigit \/ MajorDigit \/ FirstMinorDigit \/ MinorDigit \/ SpacesAfterDigit
  PROVE  ReadInv'
  <1>1. {"first_major_digit", "major_digit", "first_minor_digit", "minor_digit",
         "spaces_after_digit"} \subseteq Inner
    BY DEF Inner, States
  <1>2. PICK s \in Inner : At(s)
    BY <1>1 DEF FirstMajorDigit, MajorDigit, FirstMinorDigit, MinorDigit, SpacesAfterDigit
  <1>3. Same(r) /\ r \in Requests
    BY <1>2, SameHere DEF Inner, Same
  <1>4. \/ Ways(r)
        \/ \E v \in 0 .. WordMod - 1 :
             Ways([r EXCEPT !.major = v]) \/ Ways([r EXCEPT !.minor = v])
    <2>1. ch \in Digit => /\ Value(ch) \in 0 .. WordMod - 1
                          /\ Shifted(r.major, ch) \in 0 .. WordMod - 1
                          /\ Shifted(r.minor, ch) \in 0 .. WordMod - 1
      BY <1>3, ShiftedFacts DEF Requests
    <2>2. CASE FirstMajorDigit
      BY <1>1, <2>1, <2>2, Bytes DEF FirstMajorDigit, Ways, Invalid
    <2>3. CASE MajorDigit
      BY <1>1, <2>1, <2>3, Bytes DEF MajorDigit, Ways, Invalid
    <2>4. CASE FirstMinorDigit
      BY <1>1, <2>1, <2>4, Bytes DEF FirstMinorDigit, Ways, Invalid
    <2>5. CASE MinorDigit
      BY <1>1, <2>1, <2>5, Bytes DEF MinorDigit, Ways, Invalid
    <2>6. CASE SpacesAfterDigit
      BY <1>1, <2>6, Bytes DEF SpacesAfterDigit, Ways, Invalid
    <2> QED
      BY <2>2, <2>3, <2>4, <2>5, <2>6
  <1>5. CASE \E v \in 0 .. WordMod - 1 :
               Ways([r EXCEPT !.major = v]) \/ Ways([r EXCEPT !.minor = v])
    BY <1>2, <1>3, <1>5, SameNumber, WaysRead
  <1> QED
    BY <1>2, <1>3, <1>4, <1>5, WaysRead

LEMMA AlmostDoneReads == ASSUME LineInv, ReadInv, AlmostDone PROVE ReadInv'
  <1> DEFINE q == Point(r, "request_end", p - 1)
  <1>1. /\ At("almost_done") /\ "almost_done" \in States
        /\ {"request_end", "request_start"} \subseteq Pointers
    BY DEF AlmostDone, States, Pointers
  <1>2. /\ p \in Nat \ {0} /\ r.ptr["request_start"] \in Nat /\ r \in Requests
        /\ Read(buf, r.ptr["request_start"], "almost_done", p) /\ r.ptr \in Ptrs
        /\ Place(r.ptr, "almost_done", p)
    BY <1>1, SameHere, Here DEF Same
  <1>3. p - 1 \in Nat \ {0}
    BY <1>2, EndsAtCr
  <1>4. q \in Requests /\ q.ptr = [r.ptr EXCEPT !["request_end"] = p - 1]
    BY <1>1, <1>2, <1>3, PointFacts
  <1>5. (ch = LF /\ Done(q)) \/ Invalid(q)
    BY DEF AlmostDone
  <1> HIDE DEF q
  <1>6. EndOf(q) = p - 1
    BY <1>1, <1>2, <1>3, <1>4 DEF EndOf, Ptrs
  <1>7. CASE ch = LF /\ Done(q)
    <2>1. /\ r'.ptr = [q.ptr EXCEPT !["request_end"] = p - 1] /\ r' \in Requests
          /\ pos' = p + 1 /\ busy' = FALSE /\ rc' \in {"OK", "INVALID_09_METHOD"}
          /\ buf' = buf
      BY <1>4, <1>6, <1>7, DoneFacts
    <2>2. /\ r'.ptr \in Ptrs /\ r'.ptr["request_end"] = p - 1
          /\ r'.ptr["request_start"] = r.ptr["request_start"]
      BY <1>1, <1>2, <1>4, <2>1 DEF Requests, Ptrs
    <2>3. Ended(buf, r'.ptr, p + 1)
      BY <1>2, <1>7, <2>2, EndsCr DEF ch
    <2> QED
      BY <2>1, <2>3 DEF ReadInv, Pending
  <1>8. CASE Invalid(q)
    BY <1>8, ReadsNoMore DEF Invalid
  <1> QED
    BY <1>5, <1>7, <1>8

LEMMA StepReads == ASSUME LineInv, ReadInv, Step PROVE ReadInv'
  BY StartReads, MethodReads, SpacesBeforeUriReads, SchemaReads, LettersRead, HostReads,
     PortReads, AfterUriReads, UriReads, DigitsRead, AlmostDoneReads, Zenon
  DEF Step

LEMMA ReadStarts == Init => ReadInv
  <1> SUFFICES ASSUME Init PROVE ReadInv
    OBVIOUS
  <1>1. NewRequest.state = "start"
    BY DEF NewRequest
  <1>2. /\ ~ busy /\ ~ Parsed /\ r.state = "start" /\ pos = 1
    BY <1>1 DEF Init, Parsed
  <1> QED
    BY <1>2 DEF ReadInv, Read

(* What comes later does not change what was read. *)
LEMMA ReadLonger ==
  ASSUME NEW u \in Seq(Char), NEW x \in Char, NEW b \in Nat, NEW c \in 1 .. Len(u) + 1,
         NEW s, Read(u, b, s, c)
  PROVE  Read(Append(u, x), b, s, c)
  <1>1. \A j \in 1 .. c - 1 : Append(u, x)[j] = u[j]
    OBVIOUS
  <1> QED
    BY <1>1 DEF Read

LEMMA ReceiveReads == ASSUME LineInv, ReadInv, Receive PROVE ReadInv'
  <1>1. PICK b \in Sends(client, Len(buf)) : buf' = Append(buf, b)
    BY DEF Receive
  <1>2. b \in Char
    BY <1>1, SentIsChar DEF LineInv, Typed
  <1>3. /\ r.ptr["request_start"] \in Nat /\ pos \in 1 .. Len(buf) + 1 /\ buf \in Seq(Char)
    BY DEF LineInv, Typed, Requests, Ptrs, Pointers
  <1>4. Read(buf, r.ptr["request_start"], r.state, pos) /\ ~ busy /\ Pending
    BY DEF ReadInv, Receive
  <1>5. Read(buf', r.ptr["request_start"], r.state, pos)
    BY <1>1, <1>2, <1>3, <1>4, ReadLonger
  <1>6. UNCHANGED <<pos, busy, p, state, r, rc>>
    BY DEF Receive
  <1> QED
    BY <1>4, <1>5, <1>6 DEF ReadInv, Parsed, Pending

LEMMA EnterReads == ASSUME LineInv, ReadInv, Enter PROVE ReadInv'
  <1>1. /\ Read(buf, r.ptr["request_start"], r.state, pos) /\ Pending /\ pos \in Nat
    BY DEF ReadInv, Enter, LineInv, Typed
  <1>2. /\ busy' = TRUE /\ p' = pos /\ state' = r.state
        /\ UNCHANGED <<buf, pos, r, rc>>
    BY DEF Enter, ioVars
  <1> QED
    BY <1>1, <1>2 DEF ReadInv, Parsed, Pending

LEMMA AgainReads == ASSUME LineInv, ReadInv, Again PROVE ReadInv'
  <1>1. /\ Read(buf, r.ptr["request_start"], state, p)
    BY DEF ReadInv, Again
  <1>2. /\ pos' = p /\ r' = [r EXCEPT !.state = state] /\ rc' = "AGAIN" /\ busy' = FALSE
        /\ buf' = buf
    BY DEF Again, ioVars
  <1>3. r'.ptr = r.ptr /\ r'.state = state
    BY <1>2 DEF LineInv, Typed, Requests
  <1> QED
    BY <1>1, <1>2, <1>3 DEF ReadInv, Parsed, Pending

LEMMA RestReads == ASSUME ReadInv, UNCHANGED <<buf, pos, busy, p, state, r, rc>> PROVE ReadInv'
  BY DEF ReadInv, Parsed, Pending

LEMMA MinIs ==
  ASSUME NEW S, S \subseteq Nat, NEW x \in S, \A y \in S : x <= y
  PROVE  Min(S) = x
  <1>1. \A z \in S : (\A y \in S : z <= y) => z = x
    OBVIOUS
  <1> QED
    BY <1>1 DEF Min

(* The first byte of the line and its LF, looked for in the whole buffer *)
LEMMA FoundEnd ==
  ASSUME buf \in Seq(Char), r.ptr \in Ptrs, pos \in 1 .. Len(buf) + 1,
         Ended(buf, r.ptr, pos)
  PROVE  LineStart = r.ptr["request_start"] /\ FirstFrom(LineStart, {LF}) = pos - 1
  <1> DEFINE b == r.ptr["request_start"]
             S == {j \in 1 .. Len(buf) : buf[j] \in Char \ {CR, LF}}
             L == {j \in b .. Len(buf) : buf[j] \in {LF}}
  <1>1. /\ b \in 1 .. pos - 2 /\ buf[b] \notin {CR, LF}
        /\ \A j \in 1 .. b - 1 : buf[j] \in {CR, LF}
        /\ \A j \in b .. pos - 2 : buf[j] # LF
        /\ buf[pos - 1] = LF
    BY DEF Ended, Blank
  <1> HIDE DEF b
  <1>2. Len(buf) \in Nat /\ \A j \in 1 .. Len(buf) : buf[j] \in Char
    OBVIOUS
  <1>3. S \subseteq Nat /\ b \in S
    BY <1>1, <1>2
  <1>4. \A j \in S : b <= j
    BY <1>1, <1>2
  <1>5. Min(S) = b
    <2> HIDE DEF S
    <2> QED
      BY <1>3, <1>4, MinIs
  <1>6. L \subseteq Nat /\ pos - 1 \in L
    BY <1>1, <1>2
  <1>7. \A j \in L : pos - 1 <= j
    BY <1>1, <1>2
  <1>8. Min(L) = pos - 1
    <2> HIDE DEF L
    <2> QED
      BY <1>6, <1>7, MinIs
  <1>9. LineStart = b
    BY <1>5 DEF LineStart, FirstFrom
  <1> QED
    BY <1>8, <1>9 DEF FirstFrom, b

LEMMA ReadEnds == ASSUME LineInv, ReadInv PROVE LineEnds
  <1>1. /\ buf \in Seq(Char) /\ r.ptr \in Ptrs /\ pos \in 1 .. Len(buf) + 1
        /\ p \in 1 .. Len(buf) + 1
    BY DEF LineInv, Typed, Requests
  <1>2. ASSUME Parsed
        PROVE  LET lf == FirstFrom(LineStart, {LF}) IN
               /\ pos = lf + 1
               /\ r.ptr["request_start"] = LineStart
               /\ r.ptr["request_end"] = IF buf[lf - 1] = CR THEN lf - 1 ELSE lf
    <2>1. Ended(buf, r.ptr, pos)
      BY <1>2 DEF ReadInv
    <2>2. LineStart = r.ptr["request_start"] /\ FirstFrom(LineStart, {LF}) = pos - 1
      BY <1>1, <2>1, FoundEnd
    <2>3. r.ptr["request_end"] = IF buf[pos - 2] = CR THEN pos - 2 ELSE pos - 1
      BY <2>1 DEF Ended
    <2>4. pos \in Nat /\ (pos - 1) + 1 = pos /\ (pos - 1) - 1 = pos - 2
      BY <1>1
    <2> QED
      BY <2>2, <2>3, <2>4
  <1>3. ASSUME rc = "AGAIN", NEW i \in 1 .. pos - 1, NEW j \in 1 .. pos - 1,
               i < j, buf[i] \notin {CR, LF}
        PROVE  buf[j] # LF
    <2>1. \E s \in {state, r.state}, c \in {pos, p} :
             pos <= c /\ Read(buf, r.ptr["request_start"], s, c)
      <3>1. CASE busy
        BY <1>1, <3>1 DEF ReadInv
      <3>2. CASE ~ busy
        <4>1. Read(buf, r.ptr["request_start"], r.state, pos)
          BY <1>3, <3>2 DEF ReadInv, Pending
        <4> QED
          BY <1>1, <4>1
      <3> QED
        BY <3>1, <3>2
    <2>2. r.ptr["request_start"] \in Nat
      BY <1>1 DEF Ptrs, Pointers
    <2>3. PICK s \in {state, r.state}, c \in {pos, p} :
             pos <= c /\ Read(buf, r.ptr["request_start"], s, c)
      BY <2>1
    <2> QED
      BY <1>1, <1>3, <2>2, <2>3 DEF Read, Blank
  <1> QED
    BY <1>2, <1>3, Zenon DEF LineEnds

-----------------------------------------------------------------------------
(* The theorems *)

(***************************************************************************)
(* In every state of http_parse_request_line exactly the pointers that it  *)
(* has come across are set, in their order in the line, and a line that is *)
(* complete has them where Fits says.                                      *)
(***************************************************************************)
THEOREM LineInvHolds == Spec => []LineInv
  <1>1. ASSUME LineInv, Next PROVE LineInv'
    <2>1. CASE Step
      BY <1>1, <2>1, StepKeeps
    <2>2. CASE Receive
      BY <1>1, <2>2, ReceiveKeeps
    <2>3. CASE Enter
      BY <1>1, <2>3, EnterKeeps
    <2>4. CASE Again
      BY <1>1, <2>4, AgainKeeps
    <2>5. CASE RefuseLine \/ CopyFails \/ ProcessLine
      BY <1>1, <2>5, AnswerKeeps DEF RefuseLine, CopyFails, ProcessLine
    <2> QED
      BY <1>1, <2>1, <2>2, <2>3, <2>4, <2>5 DEF Next
  <1> QED
    BY <1>1, LineStarts, RestKeeps, PTL DEF Spec

(* Every field of the parser has its type, and every pointer is in the     *)
(* buffer or one byte after it, in any order of recv() and parser.         *)
THEOREM LineTyped == Spec => []TypeOK
  <1>1. LineInv => TypeOK
    <2> SUFFICES ASSUME LineInv PROVE TypeOK
      OBVIOUS
    <2>1. r.ptr \in [Pointers -> 0 .. Len(buf) + 1]
      BY DEF LineInv, Typed, Requests, Ptrs, Near
    <2> QED
      BY <2>1 DEF LineInv, Typed, Requests, TypeOK
  <1> QED
    BY <1>1, LineInvHolds, PTL

(* No string that http_request.c cuts out of the line, neither of the line *)
(* itself nor of its URI, has a negative length or leaves the line, for    *)
(* any size of the buffer, any bytes and any way to cut them into calls.   *)
THEOREM LengthsAlwaysFit == Spec => []LengthsFit
  <1>1. LineInv => LengthsFit
    <2> SUFFICES ASSUME LineInv, rc = "OK", NEW s \in LineSpans \cup UriSpans
                 PROVE  r.ptr["request_start"] <= s[1] /\ s[1] <= s[2] /\ s[2] <= pos
      BY Zenon DEF LengthsFit
    <2>1. Fits(r.ptr, pos) /\ r.ptr \in [Pointers -> Nat] /\ pos \in Nat
      BY DEF LineInv, Typed, Places, Requests, Ptrs
    <2>2. CASE s \in LineSpans
      BY <2>1, <2>2 DEF LineSpans, Fits, Pointers
    <2>3. CASE s \in UriSpans
      BY <2>1, <2>3 DEF UriSpans, Fits, Inside, Pointers
    <2> QED
      BY <2>2, <2>3
  <1> QED
    BY <1>1, LineInvHolds, PTL

LEMMA NextReads == ASSUME LineInv, ReadInv, [Next]_vars PROVE ReadInv'
  <1>1. CASE Step
    BY <1>1, StepReads
  <1>2. CASE Receive
    BY <1>2, ReceiveReads
  <1>3. CASE Enter
    BY <1>3, EnterReads
  <1>4. CASE Again
    BY <1>4, AgainReads
  <1>5. CASE RefuseLine \/ CopyFails \/ ProcessLine
    BY <1>5, RestReads DEF RefuseLine, CopyFails, ProcessLine, Answer
  <1>6. CASE UNCHANGED vars
    BY <1>6, RestReads DEF vars, ioVars
  <1> QED
    BY <1>1, <1>2, <1>3, <1>4, <1>5, <1>6 DEF Next

(* What the parser has read of the line, in each of its states. *)
LEMMA ReadInvHolds == Spec => [](LineInv /\ ReadInv)
  <1>1. Init => ReadInv
    BY LineStarts, ReadStarts
  <1>2. LineInv /\ ReadInv /\ [Next]_vars => ReadInv'
    BY NextReads
  <1> QED
    BY <1>1, <1>2, LineInvHolds, PTL DEF Spec

(* A line ends at its first LF, wherever the calls cut it: the parser      *)
(* neither waits for more once it has that LF nor reads beyond it, and the *)
(* CR before it is not part of the line.                                   *)
THEOREM LineAlwaysEnds == Spec => []LineEnds
  <1>1. LineInv /\ ReadInv => LineEnds
    BY ReadEnds
  <1> QED
    BY <1>1, ReadInvHolds, PTL
=============================================================================
