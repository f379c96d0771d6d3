----------------------------- MODULE RequestLine -----------------------------
(***************************************************************************)
(* http_parse_request_line of http_parse.c, a parser that is called again  *)
(* whenever more of the request has been received: each call goes on where *)
(* the last one stopped, with nothing but what it has left in the request  *)
(* and in the buffer.  Every case of its switch is an action that consumes *)
(* one byte, and the spans that http_request.c cuts out of the buffer      *)
(* afterwards are computed from the pointers the parser leaves behind, as  *)
(* is what http_process_request_line makes of the line.                    *)
(*                                                                         *)
(* A pointer is an index in the buffer, 0 is NULL.  A byte is a character, *)
(* the control bytes have names.                                           *)
(***************************************************************************)
EXTENDS Integers, Sequences, FiniteSetsExt, HostName

CONSTANTS
  BufSize,   \* bytes of the buffer, MAX_REQUEST_LINE_SIZE
  WordMod,   \* 2^16, http_major and http_minor being fields of 16 bits
  Clients    \* what clients send: an opening, then some bytes of an alphabet

CR  == "CR"
LF  == "LF"
NUL == "NUL"
SP  == " "

Digit == {"0", "1", "2", "3", "4", "5", "6", "7", "8", "9"}
Upper == {"A", "B", "C", "D", "E", "F", "G", "H", "I", "J", "K", "L", "M",
          "N", "O", "P", "Q", "R", "S", "T", "U", "V", "W", "X", "Y", "Z"}
Lower == {"a", "b", "c", "d", "e", "f", "g", "h", "i", "j", "k", "l", "m",
          "n", "o", "p", "q", "r", "s", "t", "u", "v", "w", "x", "y", "z"}
Mark  == {"!", "$", "&", "'", "(", ")", "*", "+", ",", ";", "="}
Other == {"/", ":", "[", "]", ".", "-", "_", "~", "?", "#", "%", "@"}

Char == Digit \cup Upper \cup Lower \cup Mark \cup Other \cup {CR, LF, NUL, SP}

(* (ch | 0x20) is between 'a' and 'z' *)
Letter == Upper \cup Lower

MethodChar == Upper \cup {"_"}

(* the bits of usual[] that are 0, on systems other than Win32 *)
Unusual == {NUL, LF, CR, SP, "#", "%", "+", ".", "/", "?"}

Value(d) == CHOOSE v \in 0 .. 9 :
  <<"0", "1", "2", "3", "4", "5", "6", "7", "8", "9">>[v + 1] = d

ASSUME BufAssumption == BufSize \in Nat \ {0} /\ WordMod \in Nat /\ WordMod >= 10
ASSUME ClientAssumption ==
  \A c \in Clients :
    c.opening \in Seq(Char) /\ c.alphabet \subseteq Char /\ c.more \in Nat

(* The method names that are recognised; any other leaves method at 0. *)
KnownMethods ==
  { <<"G", "E", "T">>, <<"P", "U", "T">>, <<"P", "O", "S", "T">>,
    <<"C", "O", "P", "Y">>, <<"M", "O", "V", "E">>, <<"L", "O", "C", "K">>,
    <<"H", "E", "A", "D">>, <<"M", "K", "C", "O", "L">>,
    <<"P", "A", "T", "C", "H">>, <<"T", "R", "A", "C", "E">>,
    <<"D", "E", "L", "E", "T", "E">>, <<"U", "N", "L", "O", "C", "K">>,
    <<"O", "P", "T", "I", "O", "N", "S">>,
    <<"P", "R", "O", "P", "F", "I", "N", "D">>,
    <<"P", "R", "O", "P", "P", "A", "T", "C", "H">> }

Get == <<"G", "E", "T">>
Unknown == <<>>

VARIABLES
  client,  \* the client of this connection
  buf,     \* the bytes from b->start to b->last
  pos,     \* b->pos
  busy,    \* a call of the parser is running
  p,       \* its pointer p
  state,   \* its variable state
  r,       \* the fields of the http_request, r.state among them
  rc,      \* what the last call returned
  answer   \* where http_process_request_line went with the line

ioVars == <<client, buf, answer>>
vars == <<ioVars, pos, busy, p, state, r, rc>>

States ==
  {"start", "method", "spaces_before_uri", "schema", "schema_slash",
   "schema_slash_slash", "host_start", "host", "host_end", "host_ip_literal",
   "port", "host_http_09", "after_slash_in_uri", "check_uri",
   "check_uri_http_09", "uri", "http_09", "H", "HT", "HTT", "HTTP",
   "first_major_digit", "major_digit", "first_minor_digit", "minor_digit",
   "spaces_after_digit", "almost_done"}

Pointers ==
  {"request_start", "request_end", "method_end", "schema_start", "schema_end",
   "host_start", "host_end", "port_end", "uri_start", "uri_end", "uri_ext",
   "args_start", "http_protocol"}

Flags == {"complex_uri", "quoted_uri", "plus_in_uri", "space_in_uri"}

(* os_calloc of the request *)
NewRequest ==
  [ptr |-> [f \in Pointers |-> 0], flag |-> [f \in Flags |-> FALSE],
   state |-> "start", method |-> Unknown, major |-> 0, minor |-> 0, version |-> 0]

Init ==
  /\ client \in Clients
  /\ buf = <<>>
  /\ pos = 1
  /\ busy = FALSE
  /\ p = 1
  /\ state = "start"
  /\ r = NewRequest
  /\ rc = "none"
  /\ answer = "none"

-----------------------------------------------------------------------------
(* Between two calls *)

Pending == rc \in {"none", "AGAIN"}

(* What a client may send after n bytes. *)
Sends(c, n) ==
  CASE n < Len(c.opening) -> {c.opening[n + 1]}
    [] n \in Len(c.opening) .. Len(c.opening) + c.more - 1 -> c.alphabet
    [] OTHER -> {}

(* recv() brings one more byte; several in a row are one recv(). *)
Receive ==
  /\ ~ busy /\ Pending
  /\ Len(buf) < BufSize
  /\ \E ch \in Sends(client, Len(buf)) : buf' = Append(buf, ch)
  /\ UNCHANGED <<client, pos, busy, p, state, r, rc, answer>>

Enter ==
  /\ ~ busy /\ Pending
  /\ pos <= Len(buf)
  /\ busy' = TRUE
  /\ p' = pos
  /\ state' = r.state
  /\ UNCHANGED <<ioVars, pos, r, rc>>

(* A slip: the state of the parser stays in a local variable. *)
AgainForgets ==
  /\ busy /\ p > Len(buf)
  /\ pos' = p
  /\ rc' = "AGAIN"
  /\ busy' = FALSE
  /\ UNCHANGED <<ioVars, p, state, r>>

(* The bytes are used up: OS_AGAIN. *)
Again ==
  /\ busy /\ p > Len(buf)
  /\ pos' = p
  /\ r' = [r EXCEPT !.state = state]
  /\ rc' = "AGAIN"
  /\ busy' = FALSE
  /\ UNCHANGED <<ioVars, p, state>>

-----------------------------------------------------------------------------
(* What a byte leads to *)

At(s) == busy /\ state = s /\ p <= Len(buf)

ch == buf[p]

Point(q, f, v) == [q EXCEPT !.ptr[f] = v]
Flag(q, f) == [q EXCEPT !.flag[f] = TRUE]

(* break: the loop goes on to the next byte, with the request q. *)
Go(s, q) ==
  /\ state' = s /\ r' = q /\ p' = p + 1
  /\ UNCHANGED <<ioVars, pos, busy, rc>>

(* p-- before the break: the same byte is looked at again. *)
GoSame(s, q) ==
  /\ state' = s /\ r' = q
  /\ UNCHANGED <<ioVars, pos, busy, p, rc>>

(* return: neither b->pos nor r->state is updated. *)
Fail(code, q) ==
  /\ rc' = code /\ r' = q /\ busy' = FALSE
  /\ UNCHANGED <<ioVars, pos, p, state>>

Invalid(q) == Fail("INVALID_REQUEST", q)

(* A slip: the LF is left in the buffer. *)
DoneAtLf(q) ==
  LET end == IF q.ptr["request_end"] = 0 THEN p ELSE q.ptr["request_end"]
      version == q.major * 1000 + q.minor
  IN  /\ pos' = p
      /\ r' = [Point(q, "request_end", end) EXCEPT !.version = version,
                                                    !.state = "start"]
      /\ rc' = IF version = 9 /\ q.method # Get THEN "INVALID_09_METHOD" ELSE "OK"
      /\ busy' = FALSE
      /\ UNCHANGED <<ioVars, p, state>>

(* goto done *)
Done(q) ==
  LET end == IF q.ptr["request_end"] = 0 THEN p ELSE q.ptr["request_end"]
      version == q.major * 1000 + q.minor
  IN  /\ pos' = p + 1
      /\ r' = [Point(q, "request_end", end) EXCEPT !.version = version,
                                                    !.state = "start"]
      /\ rc' = IF version = 9 /\ q.method # Get THEN "INVALID_09_METHOD" ELSE "OK"
      /\ busy' = FALSE
      /\ UNCHANGED <<ioVars, p, state>>

Nine(q) == [q EXCEPT !.minor = 9]

(* CR and LF at the end of a line without a protocol *)
Ends09(q) ==
  \/ ch = CR /\ Go("almost_done", Nine(q))
  \/ ch = LF /\ Done(Nine(q))

-----------------------------------------------------------------------------
(* The cases of the switch *)

Start ==
  LET q == Point(r, "request_start", p) IN
  /\ At("start")
  /\ \/ ch \in {CR, LF} /\ Go("start", q)
     \/ ch \in MethodChar /\ Go("method", q)
     \/ ch \notin MethodChar \cup {CR, LF} /\ Fail("INVALID_METHOD", q)

Method ==
  LET name == SubSeq(buf, r.ptr["request_start"], p - 1)
      q == [Point(r, "method_end", p - 1) EXCEPT
              !.method = IF name \in KnownMethods THEN name ELSE @]
  IN
  /\ At("method")
  /\ \/ ch = SP /\ Go("spaces_before_uri", q)
     \/ ch \in MethodChar /\ Go("method", r)
     \/ ch \notin MethodChar \cup {SP} /\ Fail("INVALID_METHOD", r)

SpacesBeforeUri ==
  /\ At("spaces_before_uri")
  /\ \/ ch = "/" /\ Go("after_slash_in_uri", Point(r, "uri_start", p))
     \/ ch \in Letter /\ Go("schema", Point(r, "schema_start", p))
     \/ ch = SP /\ Go("spaces_before_uri", r)
     \/ ch \notin Letter \cup {"/", SP} /\ Invalid(r)

Schema ==
  /\ At("schema")
  /\ \/ ch \in Letter /\ Go("schema", r)
     \/ ch = ":" /\ Go("schema_slash", Point(r, "schema_end", p))
     \/ ch \notin Letter \cup {":"} /\ Invalid(r)

(* A state that one byte leaves for the next state. *)
Expect(s, byte, next) ==
  /\ At(s)
  /\ \/ ch = byte /\ Go(next, r)
     \/ ch # byte /\ Invalid(r)

SchemaSlash == Expect("schema_slash", "/", "schema_slash_slash")
SchemaSlashSlash == Expect("schema_slash_slash", "/", "host_start")

HostChar == Letter \cup Digit \cup {".", "-"}

(* A slip: the URI that is not there has no end. *)
SlashNoEnd(q) == Point(q, "uri_start", q.ptr["schema_end"] + 1)

(* The "/" after the schema stands for the URI that is not there. *)
SlashOfSchema(q) ==
  Point(Point(q, "uri_start", q.ptr["schema_end"] + 1),
        "uri_end", q.ptr["schema_end"] + 2)

(* case sw_host_end, which sw_host falls through to *)
HostEnds(q) ==
  LET h == Point(q, "host_end", p) IN
  \/ ch = ":" /\ Go("port", h)
  \/ ch = "/" /\ Go("after_slash_in_uri", Point(h, "uri_start", p))
  \/ ch = SP /\ Go("host_http_09", SlashOfSchema(h))
  \/ ch \notin {":", "/", SP} /\ Invalid(h)

InHost(q) ==
  \/ ch \in HostChar /\ Go("host", q)
  \/ ch \notin HostChar /\ HostEnds(q)

HostStart ==
  LET q == Point(r, "host_start", p) IN
  /\ At("host_start")
  /\ \/ ch = "[" /\ Go("host_ip_literal", q)
     \/ ch # "[" /\ InHost(q)

Host == At("host") /\ InHost(r)

HostEnd == At("host_end") /\ HostEnds(r)

HostIpLiteral ==
  LET literal == Letter \cup Digit \cup Mark \cup {":", "-", ".", "_", "~"} IN
  /\ At("host_ip_literal")
  /\ \/ ch \in literal /\ Go("host_ip_literal", r)
     \/ ch = "]" /\ Go("host_end", r)
     \/ ch \notin literal \cup {"]"} /\ Invalid(r)

Port ==
  LET q == Point(r, "port_end", p) IN
  /\ At("port")
  /\ \/ ch \in Digit /\ Go("port", r)
     \/ ch = "/" /\ Go("after_slash_in_uri", Point(q, "uri_start", p))
     \/ ch = SP /\ Go("host_http_09", SlashOfSchema(q))
     \/ ch \notin Digit \cup {"/", SP} /\ Invalid(r)

(* Spaces after the URI: the end of the line, a protocol or more of the URI. *)
Spaces(s) ==
  \/ ch = SP /\ Go(s, r)
  \/ Ends09(r)
  \/ ch = "H" /\ Go("H", Point(r, "http_protocol", p))

AfterSpaces == {SP, CR, LF, "H"}

HostHttp09 ==
  /\ At("host_http_09")
  /\ \/ Spaces("host_http_09")
     \/ ch \notin AfterSpaces /\ Invalid(r)

CheckUriHttp09 ==
  /\ At("check_uri_http_09")
  /\ \/ Spaces("check_uri_http_09")
     \/ ch \notin AfterSpaces /\ GoSame("check_uri", Flag(r, "space_in_uri"))

Http09 ==
  /\ At("http_09")
  /\ \/ Spaces("http_09")
     \/ ch \notin AfterSpaces /\ GoSame("uri", Flag(r, "space_in_uri"))

(* What ends the URI in each of the three states that read it. *)
UriEnds(spaces) ==
  LET q == Point(r, "uri_end", p) IN
  \/ ch = SP /\ Go(spaces, q)
  \/ Ends09(q)
  \/ ch = NUL /\ Invalid(r)

(* What a URI is not checked any further after. *)
UriQuits ==
  \/ ch = "%" /\ Go("uri", Flag(r, "quoted_uri"))
  \/ ch = "?" /\ Go("uri", Point(r, "args_start", p + 1))
  \/ ch = "#" /\ Go("uri", Flag(r, "complex_uri"))

AfterSlashInUri ==
  /\ At("after_slash_in_uri")
  /\ \/ ch \notin Unusual /\ Go("check_uri", r)
     \/ UriEnds("check_uri_http_09")
     \/ UriQuits
     \/ ch \in {".", "/"} /\ Go("uri", Flag(r, "complex_uri"))
     \/ ch = "+" /\ Go("after_slash_in_uri", Flag(r, "plus_in_uri"))

(* A slip: the extension of an earlier segment is kept. *)
CheckUriKeepsExt ==
  /\ At("check_uri")
  /\ \/ ch \notin Unusual /\ Go("check_uri", r)
     \/ UriEnds("check_uri_http_09")
     \/ UriQuits
     \/ ch = "/" /\ Go("after_slash_in_uri", r)
     \/ ch = "." /\ Go("check_uri", Point(r, "uri_ext", p + 1))
     \/ ch = "+" /\ Go("check_uri", Flag(r, "plus_in_uri"))

CheckUri ==
  /\ At("check_uri")
  /\ \/ ch \notin Unusual /\ Go("check_uri", r)
     \/ UriEnds("check_uri_http_09")
     \/ UriQuits
     \/ ch = "/" /\ Go("after_slash_in_uri", Point(r, "uri_ext", 0))
     \/ ch = "." /\ Go("check_uri", Point(r, "uri_ext", p + 1))
     \/ ch = "+" /\ Go("check_uri", Flag(r, "plus_in_uri"))

Uri ==
  /\ At("uri")
  /\ \/ ch \notin {SP, CR, LF, NUL, "#"} /\ Go("uri", r)
     \/ UriEnds("http_09")
     \/ ch = "#" /\ Go("uri", Flag(r, "complex_uri"))

HttpH == Expect("H", "T", "HT")
HttpHT == Expect("HT", "T", "HTT")
HttpHTT == Expect("HTT", "P", "HTTP")
HttpHTTP == Expect("HTTP", "/", "first_major_digit")

(* Slips: a field without a width, or of one digit. *)
Wide(v, d) == v * 10 + Value(d)
OneDigit(v, d) == Value(d)

Shifted(v, d) == (v * 10 + Value(d)) % WordMod

FirstMajorDigit ==
  /\ At("first_major_digit")
  /\ \/ ch \in Digit \ {"0"} /\ Go("major_digit", [r EXCEPT !.major = Value(ch)])
     \/ ch \notin Digit \ {"0"} /\ Invalid(r)

MajorDigit ==
  /\ At("major_digit")
  /\ \/ ch = "." /\ Go("first_minor_digit", r)
     \/ ch \in Digit /\ Go("major_digit", [r EXCEPT !.major = Shifted(@, ch)])
     \/ ch \notin Digit \cup {"."} /\ Invalid(r)

FirstMinorDigit ==
  /\ At("first_minor_digit")
  /\ \/ ch \in Digit /\ Go("minor_digit", [r EXCEPT !.minor = Value(ch)])
     \/ ch \notin Digit /\ Invalid(r)

MinorDigit ==
  /\ At("minor_digit")
  /\ \/ ch = CR /\ Go("almost_done", r)
     \/ ch = LF /\ Done(r)
     \/ ch = SP /\ Go("spaces_after_digit", r)
     \/ ch \in Digit /\ Go("minor_digit", [r EXCEPT !.minor = Shifted(@, ch)])
     \/ ch \notin Digit \cup {CR, LF, SP} /\ Invalid(r)

SpacesAfterDigit ==
  /\ At("spaces_after_digit")
  /\ \/ ch = SP /\ Go("spaces_after_digit", r)
     \/ ch = CR /\ Go("almost_done", r)
     \/ ch = LF /\ Done(r)
     \/ ch \notin {SP, CR, LF} /\ Invalid(r)

AlmostDone ==
  LET q == Point(r, "request_end", p - 1) IN
  /\ At("almost_done")
  /\ \/ ch = LF /\ Done(q)
     \/ ch # LF /\ Invalid(q)

-----------------------------------------------------------------------------
(* What http_process_request_line makes of it *)

HostBytes == SubSeq(buf, r.ptr["host_start"], r.ptr["host_end"] - 1)
HasHost == r.ptr["host_start"] # 0 /\ r.ptr["host_end"] # 0

(* Both copies are made with os_malloc: of a URI, and of a host in lower case. *)
CopiesUri == r.flag["complex_uri"] \/ r.flag["quoted_uri"]
CopiesHost == HasHost /\ \E i \in 1 .. Len(HostBytes) : HostBytes[i] \in Upper

Refused == rc # "OK" \/ (HasHost /\ Declined(HostBytes))

Answer(a) == answer' = a /\ UNCHANGED <<client, buf, pos, busy, p, state, r, rc>>

LineRead == answer = "none" /\ rc \notin {"none", "AGAIN"}

(* A slip: a request of version 1.0 has no headers. *)
NoHeadersAt10 ==
  /\ LineRead /\ ~ Refused
  /\ Answer(IF r.version <= 1000 THEN "simple" ELSE "headers")

RefuseLine == LineRead /\ Refused /\ Answer("BAD_REQUEST")

(* The copy of the URI comes before the verdict about the host. *)
CopyFails ==
  /\ LineRead /\ rc = "OK"
  /\ CopiesUri \/ (~ Refused /\ CopiesHost)
  /\ Answer("INTERNAL_SERVER_ERROR")

ProcessLine ==
  /\ LineRead /\ ~ Refused
  /\ Answer(IF r.version < 1000 THEN "simple" ELSE "headers")

-----------------------------------------------------------------------------
Step ==
  \/ Start \/ Method \/ SpacesBeforeUri
  \/ Schema \/ SchemaSlash \/ SchemaSlashSlash
  \/ HostStart \/ Host \/ HostEnd \/ HostIpLiteral \/ Port \/ HostHttp09
  \/ AfterSlashInUri \/ CheckUri \/ CheckUriHttp09 \/ Uri \/ Http09
  \/ HttpH \/ HttpHT \/ HttpHTT \/ HttpHTTP
  \/ FirstMajorDigit \/ MajorDigit \/ FirstMinorDigit \/ MinorDigit
  \/ SpacesAfterDigit \/ AlmostDone

Next == Receive \/ Enter \/ Step \/ Again \/ RefuseLine \/ CopyFails \/ ProcessLine

Spec == Init /\ [][Next]_vars

-----------------------------------------------------------------------------
(* What http_request.c cuts out of the buffer *)

(* Spans, from the first byte to the one after the last.  The line:        *)
(* request_line, request_length, method_name, http_protocol and host.      *)
LineSpans ==
  LET f == r.ptr IN
  { <<f["request_start"], f["request_end"]>>,
    <<f["request_start"], pos>>,
    <<f["request_start"], f["method_end"] + 1>> }
  \cup { s \in { <<f["http_protocol"], f["request_end"]>>,
                 <<f["host_start"], f["host_end"]>> } : s[1] # 0 /\ s[2] # 0 }

(* http_process_request_uri: uri, unparsed_uri, exten and args. *)
UriSpans ==
  LET f == r.ptr
      path == IF f["args_start"] # 0 THEN f["args_start"] - 1 ELSE f["uri_end"]
  IN  { <<f["uri_start"], path>>, <<f["uri_start"], f["uri_end"]>> }
      \cup { s \in { <<f["uri_ext"], path>> } : s[1] # 0 }
      \cup { s \in { <<f["args_start"], f["uri_end"]>> } : s[1] # 0 /\ s[2] > s[1] }

-----------------------------------------------------------------------------
(* What the code promises *)

TypeOK ==
  /\ client \in Clients
  /\ buf \in Seq(Char) /\ Len(buf) <= BufSize
  /\ pos \in 1 .. Len(buf) + 1
  /\ busy \in BOOLEAN
  /\ p \in 1 .. Len(buf) + 1
  /\ state \in States
  /\ r.ptr \in [Pointers -> 0 .. Len(buf) + 1]
  /\ r.flag \in [Flags -> BOOLEAN]
  /\ r.state \in States
  /\ r.method \in KnownMethods \cup {Unknown}
  /\ r.major \in 0 .. WordMod - 1 /\ r.minor \in 0 .. WordMod - 1
  /\ r.version \in Nat
  /\ rc \in {"none", "AGAIN", "OK", "INVALID_METHOD", "INVALID_REQUEST",
             "INVALID_09_METHOD"}
  /\ answer \in {"none", "BAD_REQUEST", "INTERNAL_SERVER_ERROR", "simple", "headers"}

(***************************************************************************)
(* Whatever was received, no length that http_request.c computes from the  *)
(* pointers is negative, and none of its strings leaves the line: they are *)
(* unsigned, and the strings are read without any further check.           *)
(***************************************************************************)
LengthsFit ==
  rc = "OK" =>
    \A s \in LineSpans \cup UriSpans :
      r.ptr["request_start"] <= s[1] /\ s[1] <= s[2] /\ s[2] <= pos

(* A line is complete: goto done was taken. *)
Parsed == rc \in {"OK", "INVALID_09_METHOD"}

FirstFrom(i, bytes) == Min({j \in i .. Len(buf) : buf[j] \in bytes})

(* Blank lines may come before the request line. *)
LineStart == FirstFrom(1, Char \ {CR, LF})

(***************************************************************************)
(* The line ends at its first LF, however the bytes were cut into calls:   *)
(* the parser neither waits for more once it has read that LF nor reads    *)
(* beyond it, and a CR before it is not part of the line.                  *)
(***************************************************************************)
LineEnds ==
  /\ Parsed =>
       LET lf == FirstFrom(LineStart, {LF}) IN
       /\ pos = lf + 1
       /\ r.ptr["request_start"] = LineStart
       /\ r.ptr["request_end"] = IF buf[lf - 1] = CR THEN lf - 1 ELSE lf
  /\ rc = "AGAIN" =>
       \A i, j \in 1 .. pos - 1 : i < j /\ buf[i] \notin {CR, LF} => buf[j] # LF

(***************************************************************************)
(* Method, schema, host, port, URI and protocol are where they are in the  *)
(* line, however the bytes were cut into calls: the URI is everything from *)
(* its "/" up to the spaces before the protocol or the end of the line,    *)
(* and the "/" of the schema when the line has only a host.                *)
(***************************************************************************)
TargetFound ==
  Parsed =>
    LET f == r.ptr
        eol == f["request_end"]
        space == FirstFrom(LineStart, {SP})
        target == FirstFrom(space, Char \ {SP})
        protocols == {k \in target + 1 .. eol - 1 : buf[k] = "H" /\ buf[k - 1] = SP}
        end == IF protocols = {} THEN eol ELSE Min(protocols)
        stop == Min({j \in target + 1 .. end : \A i \in j .. end - 1 : buf[i] = SP})
        colon == FirstFrom(target, {":"})
        path == FirstFrom(colon + 3, {"/", SP})
        hostEnd == IF buf[colon + 3] = "[" THEN FirstFrom(colon + 3, {"]"}) + 1
                                           ELSE FirstFrom(colon + 3, {":", "/", SP})
    IN
    /\ f["method_end"] = space - 1
    /\ f["http_protocol"] = IF protocols = {} THEN 0 ELSE end
    /\ buf[target] = "/" =>
         /\ f["uri_start"] = target /\ f["uri_end"] = stop
         /\ f["schema_start"] = 0 /\ f["host_start"] = 0
    /\ buf[target] # "/" =>
         /\ f["schema_start"] = target /\ f["schema_end"] = colon
         /\ f["host_start"] = colon + 3 /\ f["host_end"] = hostEnd
         /\ f["port_end"] = IF buf[hostEnd] = ":" THEN path ELSE 0
         /\ buf[path] = "/" => f["uri_start"] = path /\ f["uri_end"] = stop
         /\ buf[path] = SP =>
              f["uri_start"] = colon + 1 /\ f["uri_end"] = colon + 2

(***************************************************************************)
(* What the parser notes about the URI is true of the URI it found, also   *)
(* when a space made it go back into the URI.  quit is the byte after      *)
(* which it does not look for arguments or an extension any more.          *)
(***************************************************************************)
FlagsExact ==
  Parsed =>
    LET f == r.ptr
        first == f["uri_start"]
        last == f["uri_end"] - 1
        AfterSlash(i) == \E j \in first .. i - 1 :
          buf[j] = "/" /\ \A k \in j + 1 .. i - 1 : buf[k] = "+"
        quits == {i \in first + 1 .. last :
                    \/ buf[i] \in {"?", "%", "#"}
                    \/ buf[i] \in {".", "/"} /\ AfterSlash(i)}
        quit == IF quits = {} THEN last + 1 ELSE Min(quits)
        by == IF quits = {} THEN NUL ELSE buf[quit]
        dots == {i \in first + 1 .. quit - 1 :
                   buf[i] = "." /\ \A j \in i .. quit - 1 : buf[j] # "/"}
    IN
    /\ r.flag["space_in_uri"] <=> \E i \in first .. last : buf[i] = SP
    /\ r.flag["plus_in_uri"] <=> \E i \in first .. quit - 1 : buf[i] = "+"
    /\ r.flag["quoted_uri"] <=> by = "%"
    /\ r.flag["complex_uri"] <=>
         by \in {".", "/", "#"} \/ \E i \in quit .. last : buf[i] = "#"
    /\ f["args_start"] = IF by = "?" THEN quit + 1 ELSE 0
    /\ f["uri_ext"] = IF dots = {} THEN 0 ELSE Max(dots) + 1

(* The value of the digits from i to j, in a field of 16 bits. *)
Numeral(i, j) ==
  LET upTo[k \in i - 1 .. j] ==
        IF k = i - 1 THEN 0 ELSE upTo[k - 1] * 10 + Value(buf[k])
  IN  upTo[j] % WordMod

(***************************************************************************)
(* The version is the one in the line, modulo the width of its fields; a   *)
(* line without a protocol is version 9, and then only GET is accepted.    *)
(***************************************************************************)
VersionFound ==
  Parsed =>
    LET protocol == r.ptr["http_protocol"]
        dot == FirstFrom(protocol, {"."})
        after == FirstFrom(dot, {SP, CR, LF})
    IN
    IF protocol = 0
    THEN r.major = 0 /\ r.minor = 9 /\ (rc = "OK" <=> r.method = Get)
    ELSE r.major = Numeral(protocol + 5, dot - 1) /\ r.minor = Numeral(dot + 1, after - 1)

(***************************************************************************)
(* An absolute target is refused for its host exactly when the host has an *)
(* empty label (two dots in a row) or nothing is left of it without a dot  *)
(* at its end: no other line that was parsed is refused, and the bytes     *)
(* that are judged are the host however the line was cut into calls.       *)
(***************************************************************************)
HostVerdict ==
  rc = "OK" /\ answer \in {"BAD_REQUEST", "simple", "headers"} =>
    LET schema == r.ptr["schema_end"]
        host == SubSeq(buf, schema + 3, FirstFrom(schema + 3, {":", "/", SP}) - 1)
        name == IF host # <<>> /\ host[Len(host)] = "." THEN Len(host) - 1 ELSE Len(host)
        literal == buf[schema + 3] = "["
        dots == \E i \in schema + 3 .. r.ptr["host_end"] - 2 : buf[i] = "." /\ buf[i + 1] = "."
    IN  answer = "BAD_REQUEST" <=> schema # 0 /\ (dots \/ (~ literal /\ name = 0))

(***************************************************************************)
(* A line is answered without its headers exactly when its version is less *)
(* than 1.0, and 9 is a line without a protocol.  The version is that of   *)
(* the line as far as the two fields keep it: with 65536 for its major     *)
(* number it depends on the minor one.  A line that the parser refused, in *)
(* particular one of version 9 with another method than GET, is answered   *)
(* with an error.                                                          *)
(***************************************************************************)
Routed ==
  answer # "none" =>
    LET protocol == r.ptr["http_protocol"]
        dot == FirstFrom(protocol, {"."})
        after == FirstFrom(dot, {SP, CR, LF})
        version == IF protocol = 0 THEN 9
                   ELSE Numeral(protocol + 5, dot - 1) * 1000 + Numeral(dot + 1, after - 1)
    IN  /\ rc # "OK" => answer = "BAD_REQUEST"
        /\ answer = "simple" => version < 1000 /\ (version = 9 => r.method = Get)
        /\ answer = "headers" => version >= 1000

(***************************************************************************)
(* http.h:143 says that complex_uri is set for a URI with "/." and, on     *)
(* Win32, with "//".  Elsewhere it should then mean that there is a "/.".  *)
(***************************************************************************)
ComplexAsDocumented ==
  rc = "OK" /\ r.flag["complex_uri"] =>
    \E i \in r.ptr["uri_start"] .. r.ptr["uri_end"] - 2 :
      buf[i] = "/" /\ buf[i + 1] = "."
=============================================================================
