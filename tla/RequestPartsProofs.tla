------------------------- MODULE RequestPartsProofs -------------------------
(***************************************************************************)
(* What http_parse_request_line leaves in the request is what a search of  *)
(* the whole line finds, for any buffer, any bytes and any way to cut them *)
(* into calls.                                                             *)
(*                                                                         *)
(* Meant says for every state of the parser what its pointers mean: which  *)
(* bytes lie at them and which do not occur between them.  Each byte that  *)
(* a state accepts takes what Meant says of it to what Meant says of the   *)
(* next state (the ...Means lemmas, about buffers and pointers alone), a   *)
(* longer buffer does not change it (MeantLonger), and at the end of the   *)
(* line it makes each pointer the least place that TargetFound searches    *)
(* for (TargetIs).  TellInv, that the pointers of the request mean so,     *)
(* is inductive with LineInv and ReadInv of RequestLineProofs.             *)
(*                                                                         *)
(* Notes says the same of what the parser notes besides the pointers: the  *)
(* version in its two fields (Versioned) and the flags, the arguments and  *)
(* the extension of the URI (Marked).  NoteInv is inductive with the three *)
(* invariants above, and gives FlagsExact, VersionFound and Routed.        *)
(*                                                                         *)
(* The verdict about the host needs two facts more: no state accepts a NUL *)
(* (NulInv), and what the scan of HostName has found in the first n bytes  *)
(* of a host (SoFar), which holds of every n and so of the whole host.     *)
(***************************************************************************)
EXTENDS RequestLineProofs, WellFoundedInduction

-----------------------------------------------------------------------------
(* Bytes of the buffer u: none of B from i to j, all of B, and the first of B. *)
Free(u, i, j, B) == \A k \in i .. j : u[k] \notin B
All(u, i, j, B) == \A k \in i .. j : u[k] \in B
First(u, i, B, k) == i <= k /\ u[k] \in B /\ Free(u, i, k - 1, B)

-----------------------------------------------------------------------------
(* Where the target is *)

Line(f) == f["request_start"]
Space(f) == f["method_end"] + 1
Absolute(f) == f["schema_start"] # 0
Target(f) == IF Absolute(f) THEN f["schema_start"] ELSE f["uri_start"]

(* The states before the target, in a schema, and before the URI. *)
Ahead == {"start", "method", "spaces_before_uri"}
InSchema == {"schema", "schema_slash", "schema_slash_slash"}

Named(u, f, s, c) ==
  /\ s # "start" => Line(f) \in 1 .. c - 1
  /\ s = "method" => Free(u, Line(f), c - 1, {SP})
  /\ s \notin {"start", "method"} => Space(f) < c /\ First(u, Line(f), {SP}, Space(f))

Aimed(u, f, s, c) ==
  /\ s \in Ahead => ~ Absolute(f)
  /\ s = "spaces_before_uri" => All(u, Space(f), c - 1, {SP})
  /\ s \in InSchema \cup InAuthority => Absolute(f)
  /\ s \notin Ahead =>
       /\ Space(f) < Target(f) /\ Target(f) < c
       /\ All(u, Space(f), Target(f) - 1, {SP}) /\ u[Target(f)] # SP
       /\ Absolute(f) <=> u[Target(f)] # "/"
  /\ ~ Absolute(f) => f["host_start"] = 0

-----------------------------------------------------------------------------
(* The parts of an absolute target *)

Host3(f) == f["schema_end"] + 3
HostStop == {":", "/", SP}
PathStop == {"/", SP}
Literal(u, f) == u[f["host_start"]] = "["

(* The byte after the host and its port, and whether the URI is not there. *)
Path(u, f) == IF u[f["host_end"]] = ":" THEN f["port_end"] ELSE f["host_end"]
NoPath(f) == Absolute(f) /\ f["uri_start"] = f["schema_end"] + 1

Schemed(u, f, s, c) ==
  /\ s = "schema" => Free(u, f["schema_start"], c - 1, {":"})
  /\ s = "schema_slash" => c = f["schema_end"] + 1
  /\ s = "schema_slash_slash" => c = f["schema_end"] + 2
  /\ s = "host_start" => c = Host3(f)
  /\ s \in InAuthority => Host3(f) <= c
  /\ s \notin Ahead \cup {"schema"} /\ Absolute(f) =>
       /\ First(u, f["schema_start"], {":"}, f["schema_end"])
       /\ f["schema_end"] < c
       /\ s # "schema_slash" => u[f["schema_end"] + 1] = "/"
       /\ s \notin {"schema_slash", "schema_slash_slash"} => u[f["schema_end"] + 2] = "/"

HostFound(u, f) ==
  IF Literal(u, f) THEN First(u, f["host_start"], {"]"}, f["host_end"] - 1)
                   ELSE First(u, f["host_start"], HostStop, f["host_end"])

Hosted(u, f, s, c) ==
  /\ s \in Ahead \cup InSchema \cup InAuthority => f["port_end"] = 0
  /\ s \in InAuthority \ {"host_start"} =>
       f["host_start"] = Host3(f) /\ (f["host_start"] < c \/ c <= Len(u))
  /\ s = "host" => ~ Literal(u, f) /\ Free(u, f["host_start"], c - 1, HostStop)
  /\ s = "host_ip_literal" =>
       Literal(u, f) /\ Free(u, f["host_start"], c - 1, {"]", "/", SP})
  /\ s = "host_end" =>
       /\ Literal(u, f) /\ First(u, f["host_start"], {"]"}, c - 1)
       /\ Free(u, f["host_start"], c - 1, PathStop)
  /\ s = "port" =>
       /\ HostFound(u, f) /\ f["host_end"] < c /\ u[f["host_end"]] = ":"
       /\ Free(u, f["host_start"], c - 1, PathStop)

Pathed(u, f, s, c) ==
  s \in Reading \cup AfterUri /\ Absolute(f) =>
    /\ f["host_start"] = Host3(f) /\ HostFound(u, f)
    /\ u[f["host_end"]] # ":" => f["port_end"] = 0
    /\ f["host_end"] <= Path(u, f) /\ Path(u, f) < c
    /\ First(u, f["host_start"], PathStop, Path(u, f))
    /\ NoPath(f) <=> u[Path(u, f)] # "/"
    /\ ~ NoPath(f) => f["uri_start"] = Path(u, f)
    /\ NoPath(f) /\ s \in AfterUri => f["uri_end"] = f["schema_end"] + 2

-----------------------------------------------------------------------------
(* Spaces and what comes after them *)

Spaced == {"host_http_09", "check_uri_http_09", "http_09"}
Numbered == Protocol \ {"almost_done"}

(* At k a protocol begins. *)
Begins(u, k) == u[k] = "H" /\ u[k - 1] = SP

Protocoled(u, f, s, c) ==
  /\ s \in Numbered => f["http_protocol"] # 0
  /\ s \notin Protocol => f["http_protocol"] = 0
  /\ s \notin Ahead =>
       IF f["http_protocol"] = 0 THEN \A k \in Target(f) + 1 .. c - 1 : ~ Begins(u, k)
       ELSE /\ f["http_protocol"] \in Target(f) + 1 .. c - 1 /\ Begins(u, f["http_protocol"])
            /\ \A k \in Target(f) + 1 .. f["http_protocol"] - 1 : ~ Begins(u, k)

(* What the URI ends with: the protocol, or the line. *)
Spaces09(u, f, s, c) ==
  IF f["http_protocol"] # 0 THEN f["http_protocol"]
  ELSE IF s = "almost_done" THEN c - 1 ELSE c

Cut(u, f, s, c) ==
  /\ s \in InSchema \cup InAuthority => Free(u, Target(f), c - 1, {SP})
  /\ s \in Reading =>
       /\ ~ NoPath(f) /\ f["uri_start"] < c
       /\ u[c - 1] = SP => c <= Len(u) /\ u[c] \notin AfterSpaces
  /\ s \in Spaced => u[c - 1] = SP /\ (s = "host_http_09" <=> NoPath(f))
  /\ s \in AfterUri /\ ~ NoPath(f) =>
       /\ f["uri_start"] < f["uri_end"] /\ f["uri_end"] <= Spaces09(u, f, s, c)
       /\ u[f["uri_end"] - 1] # SP
       /\ All(u, f["uri_end"], Spaces09(u, f, s, c) - 1, {SP})

Meant(u, f, s, c) ==
  /\ Named(u, f, s, c) /\ Aimed(u, f, s, c) /\ Schemed(u, f, s, c)
  /\ Hosted(u, f, s, c) /\ Pathed(u, f, s, c) /\ Protocoled(u, f, s, c)
  /\ Cut(u, f, s, c)

-----------------------------------------------------------------------------
(* How a byte at c changes what the pointers mean *)

(* What is known of the pointers f when the byte at c is looked at. *)
Known(u, f, s, c) ==
  u \in Seq(Char) /\ f \in Ptrs /\ c \in 1 .. Len(u) /\ Meant(u, f, s, c)

LEMMA FreeMore ==
  ASSUME NEW u, NEW B, NEW c \in Nat, NEW i \in Nat, Free(u, i, c - 1, B), u[c] \notin B
  PROVE  Free(u, i, c, B) /\ Free(u, i, (c + 1) - 1, B)
  BY DEF Free

LEMMA AllMore ==
  ASSUME NEW u, NEW B, NEW c \in Nat, NEW i \in Nat, All(u, i, c - 1, B), u[c] \in B
  PROVE  All(u, i, c, B) /\ All(u, i, (c + 1) - 1, B)
  BY DEF All

(* The pointers of g that are those of f *)
Agree(f, g, X) == f \in Ptrs /\ g \in Ptrs /\ \A x \in X : g[x] = f[x]

LEMMA NamedStays ==
  ASSUME NEW u, NEW f, NEW g, Agree(f, g, {"request_start", "method_end"}),
         NEW c \in Nat, NEW d \in Nat, c <= d, NEW s, NEW t,
         s \notin {"start", "method"}, t \notin {"start", "method"}, Named(u, f, s, c)
  PROVE  Named(u, g, t, d)
  BY DEF Agree, Named, Line, Space, Ptrs, Pointers

LEMMA AimedStays ==
  ASSUME NEW u, NEW f, NEW g, Agree(f, g, {"method_end", "schema_start"}),
         Absolute(f) \/ Agree(f, g, {"uri_start", "host_start"}),
         NEW c \in Nat, NEW d \in Nat, c <= d, NEW s, NEW t,
         s \notin Ahead, t \notin Ahead, t \in InSchema \cup InAuthority => Absolute(f),
         Aimed(u, f, s, c)
  PROVE  /\ Aimed(u, g, t, d) /\ Target(g) = Target(f)
         /\ Absolute(g) = Absolute(f)
  <1>1. /\ Space(g) = Space(f) /\ Target(g) = Target(f) /\ Absolute(g) = Absolute(f)
        /\ ~ Absolute(f) => g["host_start"] = f["host_start"]
    BY DEF Agree, Space, Target, Absolute
  <1>2. Target(f) \in Nat
    BY DEF Agree, Ptrs, Pointers, Target
  <1> QED
    BY <1>1, <1>2 DEF Aimed, Ahead

LEMMA SchemedStays ==
  ASSUME NEW u, NEW f, NEW g, Agree(f, g, {"schema_start", "schema_end"}),
         NEW c \in Nat, NEW d \in Nat, c <= d, NEW s, NEW t,
         s \notin Ahead \cup InSchema, t \notin Ahead \cup InSchema \cup {"host_start"},
         t \in InAuthority => s \in InAuthority,
         Schemed(u, f, s, c)
  PROVE  Schemed(u, g, t, d)
  BY DEF Agree, Schemed, Absolute, Host3, Ptrs, Pointers, Ahead, InSchema

(* No protocol begins before the URI. *)
LEMMA NoneBegins ==
  ASSUME NEW u, NEW f, NEW g, NEW c \in Nat \ {0}, NEW s, NEW t,
         f["http_protocol"] = 0, g["http_protocol"] = 0, Target(g) = Target(f),
         Target(f) \in Nat, Target(f) < c,
         s \notin Ahead \cup Protocol, t \notin Numbered,
         u[c] = "H" => u[c - 1] # SP,
         Protocoled(u, f, s, c)
  PROVE  Protocoled(u, g, t, c + 1)
  BY DEF Protocoled, Ahead, Numbered, Protocol, Begins

LEMMA NoSpaces ==
  ASSUME NEW u, NEW f, NEW g, NEW c \in Nat \ {0}, NEW s, NEW t, Target(g) = Target(f),
         s \in InSchema \cup InAuthority, t \in InSchema \cup InAuthority,
         u[c] # SP, Cut(u, f, s, c)
  PROVE  Cut(u, g, t, c + 1)
  BY DEF Cut, InSchema, InAuthority, Reading, Spaced, AfterUri, Protocol, Free

(* One pointer is changed. *)
LEMMA PointerPut ==
  ASSUME NEW f \in Ptrs, NEW y \in Pointers, NEW n \in Nat
  PROVE  /\ [f EXCEPT ![y] = n] \in Ptrs /\ [f EXCEPT ![y] = n][y] = n
         /\ \A x \in Pointers \ {y} : [f EXCEPT ![y] = n][x] = f[x]
  BY DEF Ptrs

LEMMA StartMeans ==
  ASSUME NEW u, NEW f, NEW c, Known(u, f, "start", c)
  PROVE  /\ Meant(u, [f EXCEPT !["request_start"] = c], "start", c + 1)
         /\ u[c] # SP => Meant(u, [f EXCEPT !["request_start"] = c], "method", c + 1)
  <1> DEFINE g == [f EXCEPT !["request_start"] = c]
  <1>1. f \in Ptrs /\ c \in 1 .. Len(u) /\ u[c] \in Char /\ Meant(u, f, "start", c)
    BY DEF Known
  <1>2. f["schema_start"] = 0 /\ f["host_start"] = 0 /\ f["port_end"] = 0 /\ f["http_protocol"] = 0
    BY <1>1 DEF Meant, Aimed, Hosted, Absolute, Ahead, Protocoled, Protocol
  <1>3. /\ g \in Ptrs /\ g["request_start"] = c
        /\ \A x \in Pointers \ {"request_start"} : g[x] = f[x]
    <2>1. f \in Ptrs /\ "request_start" \in Pointers /\ c \in Nat
      BY <1>1 DEF Pointers
    <2> QED
      BY <2>1, PointerPut
  <1> HIDE DEF g
  <1>4. /\ Named(u, g, "start", c + 1)
        /\ u[c] # SP => Named(u, g, "method", c + 1)
    BY <1>1, <1>2, <1>3 DEF Ptrs, Pointers, Named, First, Free, Line, Space
  <1>5. /\ Aimed(u, g, "start", c + 1)
        /\ u[c] # SP => Aimed(u, g, "method", c + 1)
    BY <1>1, <1>2, <1>3 DEF Ptrs, Pointers, Aimed, All, Absolute, Space, Target, Ahead,
       InSchema, InAuthority
  <1>6. /\ Schemed(u, g, "start", c + 1)
        /\ u[c] # SP => Schemed(u, g, "method", c + 1)
    BY <1>1, <1>2, <1>3 DEF Ptrs, Pointers, Schemed, First, Free, Absolute, Ahead, Host3,
       InSchema, InAuthority
  <1>7. /\ Hosted(u, g, "start", c + 1)
        /\ u[c] # SP => Hosted(u, g, "method", c + 1)
    BY <1>1, <1>2, <1>3 DEF Ptrs, Pointers, Hosted, HostFound, Host3, Literal, Free, First,
       Ahead, InSchema, InAuthority, HostStop, PathStop
  <1>8. /\ Pathed(u, g, "start", c + 1)
        /\ u[c] # SP => Pathed(u, g, "method", c + 1)
    BY <1>1, <1>2, <1>3 DEF Ptrs, Pointers, Pathed, HostFound, Host3, HostStop, PathStop,
       Literal, NoPath, Path, First, Free, Reading, AfterUri, Spaced, Protocol, Absolute
  <1>9. /\ Protocoled(u, g, "start", c + 1)
        /\ u[c] # SP => Protocoled(u, g, "method", c + 1)
    BY <1>1, <1>2, <1>3 DEF Ptrs, Pointers, Protocoled, Free, Numbered, Protocol, Ahead,
       Begins, Target, Absolute
  <1>10. /\ Cut(u, g, "start", c + 1)
         /\ u[c] # SP => Cut(u, g, "method", c + 1)
    BY <1>1, <1>2, <1>3 DEF Ptrs, Pointers, Cut, InSchema, InAuthority, Target, Free, Reading,
       Spaced, AfterUri, Protocol, NoPath, Absolute, Spaces09, All
  <1> QED
    BY <1>1, <1>2, <1>3, <1>4, <1>5, <1>6, <1>7, <1>8, <1>9, <1>10, Zenon DEF Meant, g

LEMMA MethodMeans ==
  ASSUME NEW u, NEW f, NEW c, Known(u, f, "method", c)
  PROVE  /\ u[c] # SP => Meant(u, f, "method", c + 1)
         /\ u[c] = SP =>
              Meant(u, [f EXCEPT !["method_end"] = c - 1], "spaces_before_uri", c + 1)
  <1> DEFINE g == [f EXCEPT !["method_end"] = c - 1]
  <1>1. f \in Ptrs /\ c \in 1 .. Len(u) /\ u[c] \in Char /\ Meant(u, f, "method", c)
    BY DEF Known
  <1>2. f["schema_start"] = 0 /\ f["host_start"] = 0 /\ f["port_end"] = 0 /\ f["http_protocol"] = 0
    BY <1>1 DEF Meant, Aimed, Hosted, Absolute, Ahead, Protocoled, Protocol
  <1>3. Line(f) \in 1 .. c - 1 /\ Free(u, Line(f), c - 1, {SP})
    BY <1>1 DEF Meant, Named
  <1>4. /\ g \in Ptrs /\ g["method_end"] = c - 1
        /\ \A x \in Pointers \ {"method_end"} : g[x] = f[x]
    <2>1. f \in Ptrs /\ "method_end" \in Pointers /\ c - 1 \in Nat
      BY <1>1 DEF Pointers
    <2> QED
      BY <2>1, PointerPut
  <1> HIDE DEF g
  <1>5. /\ u[c] # SP => Named(u, f, "method", c + 1)
        /\ u[c] = SP => Named(u, g, "spaces_before_uri", c + 1)
    BY <1>1, <1>2, <1>3, <1>4 DEF Ptrs, Pointers, Named, First, Free, Line, Space
  <1>6. /\ u[c] # SP => Aimed(u, f, "method", c + 1)
        /\ u[c] = SP => Aimed(u, g, "spaces_before_uri", c + 1)
    BY <1>1, <1>2, <1>3, <1>4 DEF Ptrs, Pointers, Aimed, All, Absolute, Space, Target, Ahead,
       InSchema, InAuthority
  <1>7. /\ u[c] # SP => Schemed(u, f, "method", c + 1)
        /\ u[c] = SP => Schemed(u, g, "spaces_before_uri", c + 1)
    BY <1>1, <1>2, <1>3, <1>4 DEF Ptrs, Pointers, Schemed, First, Free, Absolute, Ahead, Host3,
       InSchema, InAuthority
  <1>8. /\ u[c] # SP => Hosted(u, f, "method", c + 1)
        /\ u[c] = SP => Hosted(u, g, "spaces_before_uri", c + 1)
    BY <1>1, <1>2, <1>3, <1>4 DEF Ptrs, Pointers, Hosted, HostFound, Host3, Literal, Free,
       First, Ahead, InSchema, InAuthority, HostStop, PathStop
  <1>9. /\ u[c] # SP => Pathed(u, f, "method", c + 1)
        /\ u[c] = SP => Pathed(u, g, "spaces_before_uri", c + 1)
    BY <1>1, <1>2, <1>3, <1>4 DEF Ptrs, Pointers, Pathed, HostFound, Host3, HostStop, PathStop,
       Literal, NoPath, Path, First, Free, Reading, AfterUri, Spaced, Protocol, Absolute
  <1>10. /\ u[c] # SP => Protocoled(u, f, "method", c + 1)
         /\ u[c] = SP => Protocoled(u, g, "spaces_before_uri", c + 1)
    BY <1>1, <1>2, <1>3, <1>4 DEF Ptrs, Pointers, Protocoled, Free, Numbered, Protocol, Ahead,
       Begins, Target, Absolute
  <1>11. /\ u[c] # SP => Cut(u, f, "method", c + 1)
         /\ u[c] = SP => Cut(u, g, "spaces_before_uri", c + 1)
    BY <1>1, <1>2, <1>3, <1>4 DEF Ptrs, Pointers, Cut, InSchema, InAuthority, Target, Free,
       Reading, Spaced, AfterUri, Protocol, NoPath, Absolute, Spaces09, All
  <1> QED
    BY <1>1, <1>2, <1>3, <1>4, <1>5, <1>6, <1>7, <1>8, <1>9, <1>10, <1>11, Zenon DEF Meant, g

LEMMA SpacesMean ==
  ASSUME NEW u, NEW f, NEW c, Known(u, f, "spaces_before_uri", c)
  PROVE  /\ u[c] = SP => Meant(u, f, "spaces_before_uri", c + 1)
         /\ u[c] = "/" =>
              Meant(u, [f EXCEPT !["uri_start"] = c], "after_slash_in_uri", c + 1)
         /\ u[c] \notin {SP, ":", "/"} =>
              Meant(u, [f EXCEPT !["schema_start"] = c], "schema", c + 1)
  <1> DEFINE fu == [f EXCEPT !["uri_start"] = c]
             fs == [f EXCEPT !["schema_start"] = c]
  <1>1. f \in Ptrs /\ c \in 1 .. Len(u) /\ u[c] \in Char /\ Meant(u, f, "spaces_before_uri", c)
    BY DEF Known
  <1>2. SP \notin {"/", ":", "H"}
    BY DEF SP
  <1>3. /\ f["schema_start"] = 0 /\ f["host_start"] = 0 /\ f["port_end"] = 0
        /\ f["http_protocol"] = 0
    BY <1>1 DEF Meant, Aimed, Hosted, Absolute, Ahead, Protocoled, Protocol
  <1>4. /\ Line(f) \in 1 .. c - 1 /\ Space(f) < c /\ First(u, Line(f), {SP}, Space(f))
        /\ All(u, Space(f), c - 1, {SP})
    BY <1>1 DEF Meant, Named, Aimed
  <1>5. /\ fu \in Ptrs /\ fu["uri_start"] = c
        /\ \A x \in Pointers \ {"uri_start"} : fu[x] = f[x]
        /\ fs \in Ptrs /\ fs["schema_start"] = c
        /\ \A x \in Pointers \ {"schema_start"} : fs[x] = f[x]
    <2>1. /\ f \in Ptrs /\ "uri_start" \in Pointers /\ "schema_start" \in Pointers
          /\ c \in Nat
      BY <1>1 DEF Pointers
    <2>2. /\ fu \in Ptrs /\ fu["uri_start"] = c
          /\ \A x \in Pointers \ {"uri_start"} : fu[x] = f[x]
      BY <2>1, PointerPut
    <2>3. /\ fs \in Ptrs /\ fs["schema_start"] = c
          /\ \A x \in Pointers \ {"schema_start"} : fs[x] = f[x]
      BY <2>1, PointerPut
    <2> QED
      BY <2>2, <2>3
  <1> HIDE DEF fu, fs
  <1>6. /\ u[c] = SP => Named(u, f, "spaces_before_uri", c + 1)
        /\ u[c] = "/" => Named(u, fu, "after_slash_in_uri", c + 1)
        /\ u[c] \notin {SP, ":", "/"} => Named(u, fs, "schema", c + 1)
    <2>1. /\ Line(fu) = Line(f) /\ Space(fu) = Space(f)
          /\ Line(fs) = Line(f) /\ Space(fs) = Space(f)
      BY <1>5 DEF Pointers, Line, Space
    <2>2. Space(f) < c + 1 /\ Line(f) \in 1 .. (c + 1) - 1
      <3>1. f["method_end"] \in Nat
        BY <1>1 DEF Ptrs, Pointers
      <3> QED
        BY <1>1, <1>4, <3>1 DEF Space
    <2> QED
      BY <1>4, <2>1, <2>2 DEF Named
  <1>7. /\ u[c] = SP => Aimed(u, f, "spaces_before_uri", c + 1)
        /\ u[c] = "/" => Aimed(u, fu, "after_slash_in_uri", c + 1)
        /\ u[c] \notin {SP, ":", "/"} => Aimed(u, fs, "schema", c + 1)
    <2>1. /\ Space(fu) = Space(f) /\ Space(fs) = Space(f)
          /\ Absolute(f) = FALSE /\ Absolute(fu) = FALSE /\ Target(fu) = c
          /\ Absolute(fs) = TRUE /\ Target(fs) = c
          /\ f["host_start"] = 0 /\ fu["host_start"] = 0
      BY <1>1, <1>3, <1>5 DEF Pointers, Space, Absolute, Target
    <2>2. Space(f) \in Nat
      BY <1>1 DEF Ptrs, Pointers, Space
    <2>3. u[c] = SP => Aimed(u, f, "spaces_before_uri", c + 1)
      <3>1. u[c] = SP => All(u, Space(f), (c + 1) - 1, {SP})
        BY <1>1, <1>4, <2>2 DEF All
      <3> QED
        BY <2>1, <3>1 DEF Aimed, Ahead, InSchema, InAuthority
    <2>4. \A t : t \in {"after_slash_in_uri", "schema"} =>
            t \notin Ahead /\ (t \in InSchema \cup InAuthority => t = "schema")
      BY DEF Ahead, InSchema, InAuthority
    <2>5. c < c + 1 /\ "spaces_before_uri" \in Ahead
      BY <1>1 DEF Ahead
    <2>6. u[c] = "/" => Aimed(u, fu, "after_slash_in_uri", c + 1)
      BY <1>2, <1>4, <2>1, <2>4, <2>5 DEF Aimed
    <2>7. u[c] \notin {SP, ":", "/"} => Aimed(u, fs, "schema", c + 1)
      BY <1>4, <2>1, <2>4, <2>5 DEF Aimed
    <2> QED
      BY <2>3, <2>6, <2>7
  <1>8. /\ u[c] = SP => Schemed(u, f, "spaces_before_uri", c + 1)
        /\ u[c] = "/" => Schemed(u, fu, "after_slash_in_uri", c + 1)
        /\ u[c] \notin {SP, ":", "/"} => Schemed(u, fs, "schema", c + 1)
    BY <1>1, <1>2, <1>3, <1>4, <1>5 DEF Ptrs, Pointers, Schemed, First, Free, Absolute, Ahead,
       Host3, InSchema, InAuthority
  <1>9. /\ u[c] = SP => Hosted(u, f, "spaces_before_uri", c + 1)
        /\ u[c] = "/" => Hosted(u, fu, "after_slash_in_uri", c + 1)
        /\ u[c] \notin {SP, ":", "/"} => Hosted(u, fs, "schema", c + 1)
    BY <1>1, <1>2, <1>3, <1>4, <1>5 DEF Ptrs, Pointers, Hosted, HostFound, Host3, Literal,
       Free, First, Ahead, InSchema, InAuthority, HostStop, PathStop
  <1>10. /\ u[c] = SP => Pathed(u, f, "spaces_before_uri", c + 1)
         /\ u[c] = "/" => Pathed(u, fu, "after_slash_in_uri", c + 1)
         /\ u[c] \notin {SP, ":", "/"} => Pathed(u, fs, "schema", c + 1)
    BY <1>1, <1>2, <1>3, <1>4, <1>5 DEF Ptrs, Pointers, Pathed, HostFound, Host3, HostStop,
       PathStop, Literal, NoPath, Path, First, Free, Reading, AfterUri, Spaced, Protocol,
       Absolute
  <1>11. /\ u[c] = SP => Protocoled(u, f, "spaces_before_uri", c + 1)
         /\ u[c] = "/" => Protocoled(u, fu, "after_slash_in_uri", c + 1)
         /\ u[c] \notin {SP, ":", "/"} => Protocoled(u, fs, "schema", c + 1)
    BY <1>1, <1>2, <1>3, <1>4, <1>5 DEF Ptrs, Pointers, Protocoled, Free, Numbered, Protocol,
       Ahead, Begins, Target, Absolute
  <1>12. /\ u[c] = SP => Cut(u, f, "spaces_before_uri", c + 1)
         /\ u[c] = "/" => Cut(u, fu, "after_slash_in_uri", c + 1)
         /\ u[c] \notin {SP, ":", "/"} => Cut(u, fs, "schema", c + 1)
    BY <1>1, <1>2, <1>3, <1>4, <1>5 DEF Ptrs, Pointers, Cut, InSchema, InAuthority, Target,
       Free, Reading, Spaced, AfterUri, Protocol, NoPath, Absolute, Spaces09, All
  <1> QED
    BY <1>1, <1>2, <1>3, <1>4, <1>5, <1>6, <1>7, <1>8, <1>9, <1>10, <1>11, <1>12, Zenon DEF
       Meant, fu, fs

(* What a byte of the target that is not a space leaves as it was. *)
LEMMA InTarget ==
  ASSUME NEW u, NEW f, NEW g, NEW c, NEW s, NEW t, Known(u, f, s, c),
         s \in InSchema \cup InAuthority, t \in InSchema \cup InAuthority, u[c] # SP,
         Agree(f, g, {"request_start", "method_end", "schema_start", "http_protocol"}),
         Schemed(u, g, t, c + 1), Hosted(u, g, t, c + 1)
  PROVE  Meant(u, g, t, c + 1)
  <1>1. /\ c \in Nat \ {0} /\ c + 1 \in Nat /\ c <= c + 1 /\ f \in Ptrs
        /\ Named(u, f, s, c) /\ Aimed(u, f, s, c) /\ Protocoled(u, f, s, c) /\ Cut(u, f, s, c)
    BY DEF Known, Meant
  <1>2. /\ s \notin Ahead \cup Protocol /\ t \notin Ahead \cup Reading \cup AfterUri
        /\ Agree(f, g, {"request_start", "method_end"})
        /\ Agree(f, g, {"method_end", "schema_start"})
    BY DEF Ahead, Protocol, InSchema, InAuthority, Reading, AfterUri, Spaced, Agree
  <1>3. Absolute(f) /\ Target(f) \in Nat /\ Target(f) < c /\ f["http_protocol"] = 0
        /\ g["http_protocol"] = 0
    BY <1>1, <1>2 DEF Aimed, Protocoled, Agree, Target, Ptrs, Pointers
  <1>4. Named(u, g, t, c + 1)
    BY <1>1, <1>2, NamedStays DEF Ahead
  <1>5. Aimed(u, g, t, c + 1) /\ Target(g) = Target(f)
    BY <1>1, <1>2, <1>3, AimedStays
  <1>6. u[c] = "H" => u[c - 1] # SP
    BY <1>1, <1>3 DEF Cut, Free
  <1>7. Protocoled(u, g, t, c + 1)
    BY <1>1, <1>2, <1>3, <1>5, <1>6, NoneBegins DEF AfterUri, Numbered
  <1>8. Cut(u, g, t, c + 1) /\ Pathed(u, g, t, c + 1)
    BY <1>1, <1>2, <1>5, NoSpaces DEF Pathed
  <1> QED
    BY <1>4, <1>5, <1>7, <1>8 DEF Meant

LEMMA SchemaMeans ==
  ASSUME NEW u, NEW f, NEW c, Known(u, f, "schema", c)
  PROVE  /\ u[c] \notin {":", SP} => Meant(u, f, "schema", c + 1)
         /\ u[c] = ":" => Meant(u, [f EXCEPT !["schema_end"] = c], "schema_slash", c + 1)
  <1> DEFINE e == [f EXCEPT !["schema_end"] = c]
             X == {"request_start", "method_end", "schema_start", "http_protocol"}
  <1>1. /\ {"schema", "schema_slash"} \subseteq InSchema \cup InAuthority
        /\ SP # ":"
    BY DEF InSchema, InAuthority, SP
  <1>2. /\ f \in Ptrs /\ c \in Nat \ {0} /\ f["port_end"] = 0 /\ Absolute(f)
        /\ Free(u, f["schema_start"], c - 1, {":"}) /\ f["schema_start"] < c
    BY DEF Known, Meant, Schemed, Hosted, Aimed, InSchema, Ahead, Target
  <1>3. Agree(f, f, X) /\ Agree(f, e, X) /\ e["schema_end"] = c /\ e["port_end"] = 0
    BY <1>2 DEF Agree, Ptrs, Pointers
  <1> HIDE DEF e
  <1>4. /\ u[c] # ":" => Schemed(u, f, "schema", c + 1)
        /\ u[c] = ":" => Schemed(u, e, "schema_slash", c + 1)
    BY <1>2, <1>3 DEF Schemed, Agree, Ahead, InSchema, InAuthority, Free, First, Ptrs, Pointers
  <1>5. Hosted(u, f, "schema", c + 1) /\ Hosted(u, e, "schema_slash", c + 1)
    BY <1>2, <1>3 DEF Hosted, InAuthority
  <1>6. u[c] \notin {":", SP} => Meant(u, f, "schema", c + 1)
    BY <1>1, <1>3, <1>4, <1>5, InTarget
  <1>7. u[c] = ":" => Meant(u, e, "schema_slash", c + 1)
    BY <1>1, <1>3, <1>4, <1>5, InTarget
  <1> QED
    BY <1>6, <1>7 DEF e

LEMMA SlashMeans ==
  ASSUME NEW u, NEW f, NEW c, NEW s, NEW t,
         \/ s = "schema_slash" /\ t = "schema_slash_slash"
         \/ s = "schema_slash_slash" /\ t = "host_start",
         Known(u, f, s, c), u[c] = "/"
  PROVE  Meant(u, f, t, c + 1)
  <1>1. /\ {s, t} \subseteq InSchema \cup InAuthority /\ SP # "/"
        /\ s \in InSchema /\ s \notin Ahead \cup {"schema"} /\ t \notin Ahead \cup {"schema"}
    BY DEF InSchema, InAuthority, Ahead, SP
  <1>2. /\ f \in Ptrs /\ c \in Nat \ {0} /\ f["port_end"] = 0 /\ Absolute(f)
    BY <1>1 DEF Known, Meant, Hosted, Aimed
  <1>3. Schemed(u, f, t, c + 1)
    <2>1. /\ Schemed(u, f, s, c) /\ f["schema_end"] \in Nat
          /\ First(u, f["schema_start"], {":"}, f["schema_end"])
      BY <1>1, <1>2 DEF Known, Meant, Schemed, Ptrs, Pointers
    <2>2. CASE s = "schema_slash"
      BY <1>2, <2>1, <2>2 DEF Schemed, InAuthority
    <2>3. CASE s = "schema_slash_slash"
      BY <1>2, <2>1, <2>3 DEF Schemed, InAuthority, Ahead, Host3
    <2> QED
      BY <2>2, <2>3
  <1>4. Hosted(u, f, t, c + 1)
    BY <1>1, <1>2 DEF Hosted, InAuthority
  <1> QED
    BY <1>1, <1>2, <1>3, <1>4, InTarget DEF Agree

(* A host begins: with it the state could be that of the next byte. *)
LEMMA HostStartMeans ==
  ASSUME NEW u, NEW f, NEW c, Known(u, f, "host_start", c)
  PROVE  /\ u[c] = "[" =>
              Meant(u, [f EXCEPT !["host_start"] = c], "host_ip_literal", c + 1)
         /\ u[c] # "[" => Known(u, [f EXCEPT !["host_start"] = c], "host", c)
  <1> DEFINE g == [f EXCEPT !["host_start"] = c]
             X == {"request_start", "method_end", "schema_start", "http_protocol", "schema_end"}
  <1>1. /\ f \in Ptrs /\ c \in Nat \ {0} /\ f["port_end"] = 0 /\ Absolute(f) /\ c = Host3(f)
        /\ c \in 1 .. Len(u) /\ u \in Seq(Char)
    BY DEF Known, Meant, Hosted, Aimed, Schemed, InAuthority
  <1>2. Agree(f, g, X) /\ g["host_start"] = c /\ g["port_end"] = 0
    BY <1>1 DEF Agree, Ptrs, Pointers
  <1> HIDE DEF g
  <1>3. Host3(g) = c /\ Absolute(g)
    BY <1>1, <1>2 DEF Agree, Host3, Absolute
  <1>4. {"host_start", "host", "host_ip_literal"} \subseteq InAuthority \ (Ahead \cup InSchema)
    BY DEF InAuthority, Ahead, InSchema
  <1>5. ASSUME u[c] = "[" PROVE Meant(u, g, "host_ip_literal", c + 1)
    <2>1. Schemed(u, g, "host_ip_literal", c + 1)
      BY <1>1, <1>2, <1>4, SchemedStays DEF Known, Meant, Agree
    <2>2. Hosted(u, g, "host_ip_literal", c + 1)
      <3>1. Literal(u, g)
        BY <1>2, <1>5 DEF Literal
      <3>2. u[c] \notin {"]", "/", SP}
        BY <1>5 DEF SP
      <3>3. (c + 1) - 1 = c /\ \A k \in c .. c : k = c
        BY <1>1
      <3>4. Free(u, g["host_start"], (c + 1) - 1, {"]", "/", SP})
        BY <1>2, <3>2, <3>3 DEF Free
      <3> QED
        BY <1>1, <1>2, <1>3, <3>1, <3>4 DEF Hosted
    <2>3. u[c] # SP /\ Agree(f, g, {"request_start", "method_end", "schema_start",
                                    "http_protocol"})
      BY <1>2, <1>5 DEF Agree, SP
    <2> QED
      BY <1>4, <2>1, <2>2, <2>3, InTarget
  <1>6. ASSUME u[c] # "[" PROVE Meant(u, g, "host", c)
    <2>1. Named(u, g, "host", c)
      BY <1>1, <1>2, <1>4, NamedStays DEF Known, Meant, Agree, Ahead
    <2>2. Aimed(u, g, "host", c) /\ Target(g) = Target(f)
      BY <1>1, <1>2, <1>4, AimedStays DEF Known, Meant, Agree
    <2>3. Schemed(u, g, "host", c)
      BY <1>1, <1>2, <1>4, SchemedStays DEF Known, Meant, Agree
    <2>4. Hosted(u, g, "host", c)
      BY <1>1, <1>2, <1>3, <1>6 DEF Hosted, Literal, Free
    <2>5. Pathed(u, g, "host", c) /\ Cut(u, g, "host", c)
      BY <1>4, <2>2 DEF Known, Meant, Cut, Pathed, Reading, AfterUri, Spaced, Protocol
    <2>6. Protocoled(u, g, "host", c)
      BY <1>2, <1>4, <2>2 DEF Known, Meant, Protocoled, Numbered, Protocol, Agree, Ahead
    <2> QED
      BY <2>1, <2>2, <2>3, <2>4, <2>5, <2>6 DEF Meant
  <1>7. u[c] # "[" => Known(u, g, "host", c)
    BY <1>1, <1>2, <1>6 DEF Known, Agree
  <1> QED
    BY <1>5, <1>7 DEF g

(* A byte of the host or of the port *)
LEMMA InAuthorityMeans ==
  ASSUME NEW u, NEW f, NEW c, NEW s, NEW t, Known(u, f, s, c), u[c] \notin PathStop,
         \/ s = "host" /\ t = "host" /\ u[c] \notin HostStop
         \/ s = "host_ip_literal" /\ t = "host_ip_literal" /\ u[c] # "]"
         \/ s = "host_ip_literal" /\ t = "host_end" /\ u[c] = "]"
         \/ s = "port" /\ t = "port"
  PROVE  Meant(u, f, t, c + 1)
  <1>1. /\ {s, t} \subseteq InSchema \cup InAuthority /\ u[c] # SP
        /\ {s, t} \subseteq InAuthority \ {"host_start"}
        /\ s \notin Ahead \cup InSchema /\ t \notin Ahead \cup InSchema \cup {"host_start"}
    BY DEF InSchema, InAuthority, PathStop, Ahead
  <1>2. f \in Ptrs /\ c \in Nat \ {0} /\ c + 1 \in Nat /\ c <= c + 1 /\ (c + 1) - 1 = c
    BY DEF Known
  <1>3. Schemed(u, f, t, c + 1)
    BY <1>1, <1>2, SchemedStays DEF Known, Meant, Agree
  <1>4. /\ Hosted(u, f, s, c) /\ f["port_end"] = 0 /\ f["host_start"] = Host3(f)
        /\ f["host_start"] \in Nat /\ f["host_start"] <= c /\ f["host_start"] < c + 1
    BY <1>1, <1>2 DEF Known, Meant, Hosted, Schemed, Ptrs, Pointers
  <1>5. Hosted(u, f, t, c + 1)
    <2>1. CASE s = "host" /\ t = "host"
      <3>1. ~ Literal(u, f) /\ Free(u, f["host_start"], c - 1, HostStop) /\ u[c] \notin HostStop
        BY <1>4, <2>1 DEF Hosted
      <3>2. Free(u, f["host_start"], (c + 1) - 1, HostStop)
        BY <1>2, <1>4, <3>1, FreeMore
      <3> QED
        BY <1>4, <2>1, <3>1, <3>2 DEF Hosted
    <2>2. CASE s = "host_ip_literal" /\ t = "host_ip_literal"
      <3>1. Literal(u, f) /\ Free(u, f["host_start"], c - 1, {"]", "/", SP})
        BY <1>4, <2>2 DEF Hosted
      <3>2. u[c] \notin {"]", "/", SP}
        BY <2>2 DEF PathStop
      <3>3. Free(u, f["host_start"], (c + 1) - 1, {"]", "/", SP})
        BY <1>2, <1>4, <3>1, <3>2, FreeMore
      <3> QED
        BY <1>4, <2>2, <3>1, <3>3 DEF Hosted
    <2>3. CASE s = "host_ip_literal" /\ t = "host_end"
      <3>1. Literal(u, f) /\ Free(u, f["host_start"], c - 1, {"]", "/", SP}) /\ u[c] = "]"
        BY <1>4, <2>3 DEF Hosted
      <3>2. /\ Free(u, f["host_start"], c - 1, {"]"}) /\ Free(u, f["host_start"], c - 1, PathStop)
        BY <3>1 DEF Free, PathStop
      <3>3. First(u, f["host_start"], {"]"}, (c + 1) - 1)
        BY <1>2, <1>4, <3>1, <3>2 DEF First
      <3>4. Free(u, f["host_start"], (c + 1) - 1, PathStop)
        BY <1>2, <1>4, <3>2, FreeMore
      <3> QED
        BY <1>4, <2>3, <3>1, <3>3, <3>4 DEF Hosted
    <2>4. CASE s = "port" /\ t = "port"
      <3>1. /\ HostFound(u, f) /\ f["host_end"] < c /\ u[f["host_end"]] = ":"
            /\ Free(u, f["host_start"], c - 1, PathStop)
        BY <1>4, <2>4 DEF Hosted
      <3>2. Free(u, f["host_start"], (c + 1) - 1, PathStop) /\ f["host_end"] < c + 1
        BY <1>2, <1>4, <3>1, FreeMore DEF Ptrs, Pointers
      <3> QED
        BY <1>4, <2>4, <3>1, <3>2 DEF Hosted
    <2> QED
      BY <2>1, <2>2, <2>3, <2>4
  <1> QED
    BY <1>1, <1>2, <1>3, <1>5, InTarget DEF Agree

(* The byte after the host and its port: of the URI, or of the spaces. *)
LEMMA AuthorityEnds ==
  ASSUME NEW u, NEW f, NEW g, NEW c, NEW s \in InAuthority, NEW t, Known(u, f, s, c),
         Agree(f, g, {"request_start", "method_end", "schema_start", "schema_end",
                      "http_protocol"}),
         \/ t = "after_slash_in_uri" /\ u[c] = "/" /\ g["uri_start"] = c
         \/ /\ t = "host_http_09" /\ u[c] = SP
            /\ g["uri_start"] = g["schema_end"] + 1 /\ g["uri_end"] = g["schema_end"] + 2,
         s # "host_start", Pathed(u, g, t, c + 1)
  PROVE  Meant(u, g, t, c + 1)
  <1>1. /\ c \in Nat \ {0} /\ c + 1 \in Nat /\ c <= c + 1 /\ f \in Ptrs /\ g \in Ptrs
        /\ (c + 1) - 1 = c
        /\ Named(u, f, s, c) /\ Aimed(u, f, s, c) /\ Schemed(u, f, s, c)
        /\ Protocoled(u, f, s, c) /\ Cut(u, f, s, c)
    BY DEF Known, Meant, Agree
  <1>2. /\ s \notin Ahead \cup Protocol \cup InSchema
        /\ t \notin Ahead \cup Protocol \cup InSchema \cup InAuthority
        /\ Agree(f, g, {"request_start", "method_end"})
        /\ Agree(f, g, {"method_end", "schema_start"})
        /\ Agree(f, g, {"schema_start", "schema_end"})
    BY DEF Ahead, Protocol, InSchema, InAuthority, Agree
  <1>3. /\ Absolute(f) /\ Target(f) \in Nat /\ Target(f) < c /\ f["http_protocol"] = 0
        /\ g["http_protocol"] = 0 /\ Host3(f) <= c /\ g["schema_end"] = f["schema_end"]
        /\ f["schema_end"] \in Nat
    BY <1>1, <1>2 DEF Aimed, Schemed, Protocoled, Agree, Target, Ptrs, Pointers
  <1>4. Named(u, g, t, c + 1)
    BY <1>1, <1>2, NamedStays DEF Ahead
  <1>5. Aimed(u, g, t, c + 1) /\ Target(g) = Target(f) /\ Absolute(g)
    BY <1>1, <1>2, <1>3, AimedStays
  <1>6. Schemed(u, g, t, c + 1)
    BY <1>1, <1>2, SchemedStays DEF InAuthority
  <1>7. Hosted(u, g, t, c + 1)
    BY <1>2 DEF Hosted, InAuthority
  <1>8. u[c] # "H"
    BY DEF SP
  <1>9. Protocoled(u, g, t, c + 1)
    BY <1>1, <1>2, <1>3, <1>5, <1>8, NoneBegins DEF Numbered
  <1>10. Cut(u, g, t, c + 1)
    <2>1. CASE t = "after_slash_in_uri"
      <3>1. g["uri_start"] = c /\ u[c] # SP
        BY <2>1 DEF SP
      <3>2. ~ NoPath(g) /\ g["uri_start"] < c + 1 /\ u[(c + 1) - 1] # SP
        BY <1>1, <1>3, <3>1 DEF NoPath, Host3
      <3> QED
        BY <2>1, <3>2 DEF Cut, InSchema, InAuthority, Spaced, AfterUri, Protocol
    <2>2. CASE t = "host_http_09"
      <3>1. NoPath(g) /\ u[(c + 1) - 1] = SP
        BY <1>1, <1>5, <2>2 DEF NoPath
      <3> QED
        BY <2>2, <3>1 DEF Cut, InSchema, InAuthority, Reading
    <2> QED
      BY <2>1, <2>2
  <1> QED
    BY <1>4, <1>5, <1>6, <1>7, <1>9, <1>10 DEF Meant

(* What the byte c after a host leads to *)
LEMMA HostEndsMean ==
  ASSUME NEW u, NEW f, NEW g, NEW c, NEW s \in {"host", "host_end"}, NEW t, Known(u, f, s, c),
         Agree(f, g, {"request_start", "method_end", "schema_start", "schema_end",
                      "host_start", "port_end", "http_protocol"}),
         g["host_end"] = c,
         \/ t = "port" /\ u[c] = ":"
         \/ t = "after_slash_in_uri" /\ u[c] = "/" /\ g["uri_start"] = c
         \/ /\ t = "host_http_09" /\ u[c] = SP
            /\ g["uri_start"] = g["schema_end"] + 1 /\ g["uri_end"] = g["schema_end"] + 2
  PROVE  Meant(u, g, t, c + 1)
  <1>1. /\ s \in InAuthority \ {"host_start"} /\ s \notin Ahead \cup InSchema
        /\ s \in InSchema \cup InAuthority
    BY DEF InAuthority, Ahead, InSchema
  <1>2. /\ f \in Ptrs /\ g \in Ptrs /\ c \in Nat \ {0} /\ c + 1 \in Nat /\ c <= c + 1
        /\ (c + 1) - 1 = c
    BY DEF Known, Agree
  <1>3. /\ Hosted(u, f, s, c) /\ f["port_end"] = 0 /\ f["host_start"] = Host3(f)
        /\ Host3(f) <= c /\ f["host_start"] \in Nat
    BY <1>1, <1>2 DEF Known, Meant, Hosted, Schemed, Ptrs, Pointers
  <1>4. /\ g["port_end"] = 0 /\ g["host_start"] = f["host_start"] /\ Host3(g) = Host3(f)
        /\ Literal(u, g) = Literal(u, f)
    BY <1>3 DEF Agree, Host3, Literal
  <1>5. Free(u, f["host_start"], c - 1, PathStop) /\ u[c] \in HostStop
    BY <1>3 DEF Hosted, Free, HostStop, PathStop
  <1>6. HostFound(u, g)
    <2>1. CASE s = "host"
      <3>1. ~ Literal(u, f) /\ Free(u, f["host_start"], c - 1, HostStop)
        BY <1>3, <2>1 DEF Hosted
      <3> QED
        BY <1>3, <1>4, <1>5, <3>1 DEF HostFound, First
    <2>2. CASE s = "host_end"
      <3>1. Literal(u, f) /\ First(u, f["host_start"], {"]"}, c - 1)
        BY <1>3, <2>2 DEF Hosted
      <3> QED
        BY <1>4, <3>1 DEF HostFound
    <2> QED
      BY <2>1, <2>2
  <1>7. CASE t = "port" /\ u[c] = ":"
    <2>1. Hosted(u, g, "port", c + 1)
      <3>1. Free(u, g["host_start"], (c + 1) - 1, PathStop)
        BY <1>2, <1>3, <1>4, <1>5, <1>7, FreeMore DEF PathStop, SP
      <3> QED
        BY <1>2, <1>3, <1>4, <1>6, <1>7, <3>1 DEF Hosted
    <2>2. "port" \in InAuthority \ (Ahead \cup InSchema) /\ u[c] # SP
      BY <1>7 DEF InAuthority, Ahead, InSchema, SP
    <2>3. Schemed(u, g, "port", c + 1)
      BY <1>1, <1>2, <2>2, SchemedStays DEF Known, Meant, Agree
    <2>4. Agree(f, g, {"request_start", "method_end", "schema_start", "http_protocol"})
      BY DEF Agree
    <2> QED
      BY <1>1, <1>7, <2>1, <2>2, <2>3, <2>4, InTarget
  <1>8. CASE t # "port"
    <2>1. u[c] \in PathStop /\ u[c] # ":"
      BY <1>8 DEF PathStop, SP
    <2>2. Path(u, g) = c /\ First(u, g["host_start"], PathStop, c) /\ c < c + 1
      BY <1>2, <1>3, <1>4, <1>5, <2>1 DEF Path, First
    <2>3. /\ NoPath(g) <=> u[c] # "/"
          /\ ~ NoPath(g) => g["uri_start"] = c
          /\ NoPath(g) => g["uri_end"] = g["schema_end"] + 2 \/ t \notin AfterUri
      <3>1. Absolute(g) /\ c # g["schema_end"] + 1 /\ SP # "/"
        <4>1. Absolute(f)
          BY <1>1 DEF Known, Meant, Aimed
        <4>2. g["schema_end"] = f["schema_end"] /\ f["schema_end"] \in Nat
          BY DEF Agree, Ptrs, Pointers
        <4>3. Absolute(g)
          BY <4>1 DEF Agree, Absolute
        <4>4. f["schema_end"] + 3 <= c
          BY <1>3 DEF Host3
        <4>5. c # g["schema_end"] + 1
          BY <1>2, <4>2, <4>4
        <4>6. SP # "/"
          BY DEF SP
        <4> QED
          BY <4>3, <4>5, <4>6
      <3> QED
        BY <1>8, <3>1 DEF NoPath
    <2>4. Pathed(u, g, t, c + 1)
      BY <1>2, <1>3, <1>4, <1>6, <2>1, <2>2, <2>3 DEF Pathed
    <2>5. Agree(f, g, {"request_start", "method_end", "schema_start", "schema_end",
                      "http_protocol"})
      BY DEF Agree
    <2> QED
      BY <1>1, <1>8, <2>4, <2>5, AuthorityEnds
  <1> QED
    BY <1>7, <1>8

(* What the byte c after a port leads to *)
LEMMA PortEndsMean ==
  ASSUME NEW u, NEW f, NEW g, NEW c, NEW t, Known(u, f, "port", c),
         Agree(f, g, {"request_start", "method_end", "schema_start", "schema_end",
                      "host_start", "host_end", "http_protocol"}),
         g["port_end"] = c,
         \/ t = "after_slash_in_uri" /\ u[c] = "/" /\ g["uri_start"] = c
         \/ /\ t = "host_http_09" /\ u[c] = SP
            /\ g["uri_start"] = g["schema_end"] + 1 /\ g["uri_end"] = g["schema_end"] + 2
  PROVE  Meant(u, g, t, c + 1)
  <1>1. "port" \in InAuthority \ {"host_start"} /\ "port" \notin Ahead \cup InSchema
    BY DEF InAuthority, Ahead, InSchema
  <1>2. f \in Ptrs /\ g \in Ptrs /\ c \in Nat \ {0} /\ c < c + 1
    BY DEF Known, Agree
  <1>3. /\ Hosted(u, f, "port", c) /\ f["host_start"] = Host3(f)
        /\ Host3(f) <= c /\ f["host_start"] \in Nat
    BY <1>1, <1>2 DEF Known, Meant, Hosted, Schemed, Ptrs, Pointers
  <1>4. /\ g["host_start"] = f["host_start"] /\ g["host_end"] = f["host_end"]
        /\ Host3(g) = Host3(f) /\ HostFound(u, g) = HostFound(u, f)
    BY <1>3 DEF Agree, Host3, HostFound, Literal
  <1>5. /\ HostFound(u, f) /\ u[f["host_end"]] = ":" /\ f["host_end"] < c
        /\ Free(u, f["host_start"], c - 1, PathStop) /\ u[c] \in PathStop
    BY <1>3 DEF Hosted, PathStop
  <1>6. /\ Path(u, g) = c /\ First(u, g["host_start"], PathStop, c)
        /\ f["host_end"] <= c
    BY <1>2, <1>3, <1>4, <1>5 DEF Path, First, Ptrs, Pointers
  <1>7. /\ NoPath(g) <=> u[c] # "/"
        /\ ~ NoPath(g) => g["uri_start"] = c
        /\ NoPath(g) => g["uri_end"] = g["schema_end"] + 2 \/ t \notin AfterUri
    <2>1. Absolute(g) /\ c # g["schema_end"] + 1 /\ SP # "/"
      <3>1. Absolute(f)
        BY <1>1 DEF Known, Meant, Aimed
      <3>2. g["schema_end"] = f["schema_end"] /\ f["schema_end"] \in Nat
        BY DEF Agree, Ptrs, Pointers
      <3>3. Absolute(g)
        BY <3>1 DEF Agree, Absolute
      <3>4. f["schema_end"] + 3 <= c
        BY <1>3 DEF Host3
      <3>5. c # g["schema_end"] + 1
        BY <1>2, <3>2, <3>4
      <3>6. SP # "/"
        BY DEF SP
      <3> QED
        BY <3>3, <3>5, <3>6
    <2> QED
      BY <2>1 DEF NoPath
  <1>8. Pathed(u, g, t, c + 1)
    BY <1>2, <1>3, <1>4, <1>5, <1>6, <1>7 DEF Pathed
  <1>9. Agree(f, g, {"request_start", "method_end", "schema_start", "schema_end",
                    "http_protocol"})
    BY DEF Agree
  <1> QED
    BY <1>1, <1>8, <1>9, AuthorityEnds

(* Bytes of the URI and after it: what comes before it stays what it was. *)
BeforeUri == {"request_start", "method_end", "schema_start", "schema_end", "host_start",
              "host_end", "port_end", "uri_start"}

LEMMA AfterTarget ==
  ASSUME NEW u, NEW f, NEW g, NEW c, NEW d \in Nat, c <= d,
         NEW s \in Reading \cup AfterUri, NEW t \in Reading \cup AfterUri, Known(u, f, s, c),
         Agree(f, g, BeforeUri),
         s \in AfterUri /\ NoPath(f) => g["uri_end"] = f["uri_end"],
         Protocoled(u, g, t, d), Cut(u, g, t, d)
  PROVE  Meant(u, g, t, d)
  <1>1. /\ c \in Nat \ {0} /\ f \in Ptrs /\ g \in Ptrs
        /\ Named(u, f, s, c) /\ Aimed(u, f, s, c) /\ Schemed(u, f, s, c)
        /\ Pathed(u, f, s, c) /\ Cut(u, f, s, c)
    BY DEF Known, Meant, Agree
  <1>2. /\ s \notin Ahead \cup InSchema \cup InAuthority
        /\ t \notin Ahead \cup InSchema \cup InAuthority
        /\ Agree(f, g, {"request_start", "method_end"})
        /\ Agree(f, g, {"method_end", "schema_start"})
        /\ Agree(f, g, {"uri_start", "host_start"})
        /\ Agree(f, g, {"schema_start", "schema_end"})
    BY DEF Ahead, Protocol, InSchema, InAuthority, Agree, Reading, AfterUri, Spaced, BeforeUri
  <1>3. Named(u, g, t, d)
    BY <1>1, <1>2, NamedStays DEF Ahead
  <1>4. Aimed(u, g, t, d)
    BY <1>1, <1>2, AimedStays
  <1>5. Schemed(u, g, t, d)
    BY <1>1, <1>2, SchemedStays DEF InAuthority
  <1>6. Hosted(u, g, t, d)
    BY <1>2 DEF Hosted, InAuthority
  <1>7. Pathed(u, g, t, d)
    <2> SUFFICES ASSUME Absolute(g) PROVE Pathed(u, g, t, d)
      BY DEF Pathed
    <2>1. /\ Absolute(f) /\ Host3(g) = Host3(f) /\ HostFound(u, g) = HostFound(u, f)
          /\ Path(u, g) = Path(u, f) /\ NoPath(g) = NoPath(f)
          /\ \A x \in BeforeUri : g[x] = f[x]
      BY DEF Agree, BeforeUri, Absolute, Host3, HostFound, Literal, Path, NoPath
    <2>2. /\ f["host_start"] = Host3(f) /\ HostFound(u, f)
          /\ u[f["host_end"]] # ":" => f["port_end"] = 0
          /\ f["host_end"] <= Path(u, f) /\ Path(u, f) < c
          /\ First(u, f["host_start"], PathStop, Path(u, f))
          /\ NoPath(f) <=> u[Path(u, f)] # "/"
          /\ ~ NoPath(f) => f["uri_start"] = Path(u, f)
          /\ NoPath(f) /\ s \in AfterUri => f["uri_end"] = f["schema_end"] + 2
      BY <1>1, <2>1 DEF Pathed
    <2>3. NoPath(f) => s \in AfterUri
      BY <1>1 DEF Cut
    <2>4. Path(u, f) \in Nat
      BY <1>1 DEF Path, Ptrs, Pointers
    <2>5. Path(u, g) < d
      BY <1>1, <2>1, <2>2, <2>4
    <2>6. g["schema_end"] = f["schema_end"] /\ g["uri_start"] = f["uri_start"]
          /\ g["host_end"] = f["host_end"] /\ g["port_end"] = f["port_end"]
          /\ g["host_start"] = f["host_start"]
      BY <2>1 DEF BeforeUri
    <2> QED
      BY <2>1, <2>2, <2>3, <2>5, <2>6 DEF Pathed
  <1> QED
    BY <1>3, <1>4, <1>5, <1>6, <1>7 DEF Meant

(* A byte of the URI *)
LEMMA UriMeans ==
  ASSUME NEW u, NEW f, NEW g, NEW c, NEW s \in Reading, NEW t \in Reading, Known(u, f, s, c),
         Agree(f, g, BeforeUri), g["http_protocol"] = f["http_protocol"], u[c] # SP
  PROVE  Meant(u, g, t, c + 1)
  <1>1. /\ c \in Nat \ {0} /\ c + 1 \in Nat /\ c <= c + 1 /\ (c + 1) - 1 = c
        /\ s \notin AfterUri \cup Ahead /\ t \notin AfterUri \cup Ahead
        /\ f \in Ptrs /\ g \in Ptrs
    BY DEF Known, Reading, AfterUri, Spaced, Protocol, Ahead, Agree
  <1>2. /\ ~ NoPath(f) /\ f["uri_start"] < c
        /\ u[c - 1] = SP => u[c] \notin AfterSpaces
        /\ f["http_protocol"] = 0 /\ g["http_protocol"] = 0
    BY <1>1 DEF Known, Meant, Cut, Protocoled, AfterUri
  <1>3. ~ NoPath(g) /\ g["uri_start"] = f["uri_start"] /\ Target(g) = Target(f)
    BY <1>2 DEF Agree, BeforeUri, NoPath, Absolute, Target
  <1>4. Target(f) \in Nat /\ Target(f) < c
    BY <1>1 DEF Known, Meant, Aimed, Target, Ptrs, Pointers
  <1>5. Protocoled(u, g, t, c + 1)
    BY <1>1, <1>2, <1>3, <1>4, NoneBegins DEF Known, Meant, AfterSpaces, AfterUri, Numbered
  <1>6. Cut(u, g, t, c + 1)
    <2>1. u[(c + 1) - 1] # SP /\ g["uri_start"] < c + 1
      BY <1>1, <1>2, <1>3 DEF Ptrs, Pointers
    <2> QED
      BY <1>1, <1>3, <2>1 DEF Cut, Reading, InSchema, InAuthority, AfterUri, Spaced
  <1> QED
    BY <1>1, <1>5, <1>6, AfterTarget

(* The byte c after the URI *)
LEMMA UriEndMeans ==
  ASSUME NEW u, NEW f, NEW g, NEW c, NEW s \in Reading, NEW t, Known(u, f, s, c),
         Agree(f, g, BeforeUri), g["http_protocol"] = f["http_protocol"], g["uri_end"] = c,
         \/ t \in {"check_uri_http_09", "http_09"} /\ u[c] = SP
         \/ t = "almost_done" /\ u[c] \in {CR, LF}
  PROVE  Meant(u, g, t, c + 1)
  <1>1. /\ c \in Nat \ {0} /\ c + 1 \in Nat /\ c <= c + 1 /\ (c + 1) - 1 = c
        /\ s \notin AfterUri \cup Ahead /\ t \in AfterUri /\ t \notin Numbered \cup Ahead
        /\ t \notin InSchema \cup InAuthority \cup Reading /\ t # "host_http_09"
        /\ f \in Ptrs /\ g \in Ptrs
    BY DEF Known, Reading, AfterUri, Spaced, Protocol, Ahead, Numbered, Agree, InSchema,
           InAuthority
  <1>2. /\ ~ NoPath(f) /\ f["uri_start"] < c
        /\ u[c - 1] = SP => u[c] \notin AfterSpaces
        /\ f["http_protocol"] = 0 /\ g["http_protocol"] = 0
    BY <1>1 DEF Known, Meant, Cut, Protocoled, AfterUri
  <1>3. ~ NoPath(g) /\ g["uri_start"] = f["uri_start"] /\ Target(g) = Target(f)
    BY <1>2 DEF Agree, BeforeUri, NoPath, Absolute, Target
  <1>4. Target(f) \in Nat /\ Target(f) < c
    BY <1>1 DEF Known, Meant, Aimed, Target, Ptrs, Pointers
  <1>5. u[c] \in AfterSpaces /\ u[c] # "H" /\ u[c - 1] # SP
    BY <1>2 DEF AfterSpaces, SP, CR, LF
  <1>6. Protocoled(u, g, t, c + 1)
    BY <1>1, <1>2, <1>3, <1>4, <1>5, NoneBegins DEF Known, Meant, AfterUri
  <1>7. Cut(u, g, t, c + 1)
    <2>1. CASE t = "almost_done"
      <3>1. Spaces09(u, g, t, c + 1) = c
        BY <1>1, <1>2, <2>1 DEF Spaces09
      <3>2. All(u, c, c - 1, {SP})
        BY <1>1 DEF All
      <3> QED
        BY <1>1, <1>2, <1>3, <1>5, <2>1, <3>1, <3>2 DEF Cut, Spaced
    <2>2. CASE t # "almost_done"
      <3>1. Spaces09(u, g, t, c + 1) = c + 1 /\ u[c] = SP
        BY <1>1, <1>2, <2>2 DEF Spaces09
      <3>2. All(u, c, (c + 1) - 1, {SP})
        BY <1>1, <3>1 DEF All
      <3> QED
        BY <1>1, <1>2, <1>3, <1>5, <3>1, <3>2 DEF Cut
    <2> QED
      BY <2>1, <2>2
  <1> QED
    BY <1>1, <1>6, <1>7, AfterTarget

(* What is known in the spaces after the URI *)
InSpaces(u, f, s, c) ==
  /\ c \in Nat \ {0} /\ c + 1 \in Nat /\ c <= c + 1 /\ (c + 1) - 1 = c /\ f \in Ptrs
  /\ s \notin Protocol \cup Ahead \cup Reading /\ s \in AfterUri
  /\ f["http_protocol"] = 0 /\ u[c - 1] = SP /\ f["uri_end"] \in Nat /\ f["uri_start"] \in Nat
  /\ Target(f) \in Nat /\ Target(f) < c
  /\ \A k \in Target(f) + 1 .. c - 1 : ~ Begins(u, k)
  /\ s = "host_http_09" <=> NoPath(f)
  /\ ~ NoPath(f) =>
       /\ f["uri_start"] < f["uri_end"] /\ f["uri_end"] <= c
       /\ u[f["uri_end"] - 1] # SP /\ All(u, f["uri_end"], c - 1, {SP})

LEMMA SpacedFacts ==
  ASSUME NEW u, NEW f, NEW c, NEW s \in Spaced, Known(u, f, s, c)
  PROVE  InSpaces(u, f, s, c)
  <1>1. /\ c \in Nat \ {0} /\ c + 1 \in Nat /\ c <= c + 1 /\ (c + 1) - 1 = c /\ f \in Ptrs
        /\ s \notin Protocol \cup Ahead \cup Reading /\ s \in AfterUri
    BY DEF Known, Spaced, Protocol, Ahead, Reading, AfterUri
  <1>2. /\ f["http_protocol"] = 0 /\ Spaces09(u, f, s, c) = c
        /\ \A k \in Target(f) + 1 .. c - 1 : ~ Begins(u, k)
    BY <1>1 DEF Known, Meant, Protocoled, Spaces09, Protocol
  <1>3. Target(f) \in Nat /\ Target(f) < c
    BY <1>1 DEF Known, Meant, Aimed, Target, Ptrs, Pointers
  <1>4. /\ u[c - 1] = SP
        /\ s = "host_http_09" <=> NoPath(f)
        /\ ~ NoPath(f) =>
             /\ f["uri_start"] < f["uri_end"] /\ f["uri_end"] <= c
             /\ u[f["uri_end"] - 1] # SP /\ All(u, f["uri_end"], c - 1, {SP})
    BY <1>1, <1>2 DEF Known, Meant, Cut
  <1>5. f["uri_end"] \in Nat /\ f["uri_start"] \in Nat
    BY <1>1 DEF Ptrs, Pointers
  <1> QED
    BY <1>1, <1>2, <1>3, <1>4, <1>5 DEF InSpaces

LEMMA SpaceMeans ==
  ASSUME NEW u, NEW f, NEW c, NEW s \in Spaced, Known(u, f, s, c), u[c] = SP
  PROVE  Meant(u, f, s, c + 1)
  <1>0. InSpaces(u, f, s, c)
    BY SpacedFacts
  <1>1. Protocoled(u, f, s, c + 1)
    <2>1. u[c] # "H" /\ s \notin Numbered
      BY <1>0 DEF InSpaces, SP, Numbered
    <2> QED
      BY <1>0, <2>1, NoneBegins DEF InSpaces, Known, Meant
  <1>2. Spaces09(u, f, s, c + 1) = c + 1
    BY <1>0 DEF InSpaces, Spaces09, Protocol
  <1>3. ~ NoPath(f) => All(u, f["uri_end"], (c + 1) - 1, {SP}) /\ f["uri_end"] <= c + 1
    BY <1>0, AllMore DEF InSpaces, Ptrs, Pointers
  <1>4. Cut(u, f, s, c + 1)
    BY <1>0, <1>2, <1>3 DEF InSpaces, Cut, InSchema, InAuthority, Spaced
  <1> QED
    BY <1>0, <1>1, <1>4, AfterTarget DEF InSpaces, Agree

LEMMA SpacesEndMean ==
  ASSUME NEW u, NEW f, NEW c, NEW s \in Spaced, Known(u, f, s, c)
  PROVE  /\ u[c] \in {CR, LF} => Meant(u, f, "almost_done", c + 1)
         /\ u[c] = "H" => Meant(u, [f EXCEPT !["http_protocol"] = c], "H", c + 1)
         /\ u[c] \notin AfterSpaces /\ s = "check_uri_http_09" => Meant(u, f, "check_uri", c)
         /\ u[c] \notin AfterSpaces /\ s = "http_09" => Meant(u, f, "uri", c)
  <1>0. InSpaces(u, f, s, c)
    BY SpacedFacts
  <1>1. {"almost_done", "H"} \subseteq AfterUri \ (Ahead \cup InSchema \cup InAuthority
           \cup Reading \cup Spaced)
    BY DEF AfterUri, Protocol, Ahead, InSchema, InAuthority, Reading, Spaced
  <1>2. ASSUME u[c] \in {CR, LF} PROVE Meant(u, f, "almost_done", c + 1)
    <2>1. Protocoled(u, f, "almost_done", c + 1)
      <3>1. u[c] # "H" /\ "almost_done" \notin Numbered
        BY <1>2 DEF CR, LF, Numbered
      <3> QED
        BY <1>0, <3>1, NoneBegins DEF InSpaces, Known, Meant
    <2>2. Spaces09(u, f, "almost_done", c + 1) = c
      BY <1>0 DEF InSpaces, Spaces09
    <2>3. Cut(u, f, "almost_done", c + 1)
      BY <1>0, <1>1, <2>2 DEF InSpaces, Cut
    <2> QED
      BY <1>0, <1>1, <2>1, <2>3, AfterTarget DEF InSpaces, Agree
  <1>3. ASSUME u[c] = "H" PROVE Meant(u, [f EXCEPT !["http_protocol"] = c], "H", c + 1)
    <2> DEFINE g == [f EXCEPT !["http_protocol"] = c]
    <2>1. /\ Agree(f, g, BeforeUri) /\ g["http_protocol"] = c /\ g["uri_end"] = f["uri_end"]
          /\ g \in Ptrs
      BY <1>0 DEF InSpaces, Agree, BeforeUri, Ptrs, Pointers
    <2> HIDE DEF g
    <2>2. Target(g) = Target(f) /\ NoPath(g) = NoPath(f) /\ g["uri_start"] = f["uri_start"]
      BY <2>1 DEF Agree, BeforeUri, Target, NoPath, Absolute
    <2>3. Begins(u, c)
      BY <1>0, <1>3 DEF InSpaces, Begins
    <2>4. Protocoled(u, g, "H", c + 1)
      BY <1>0, <2>1, <2>2, <2>3 DEF InSpaces, Protocoled, Protocol
    <2>5. Spaces09(u, g, "H", c + 1) = c
      BY <1>0, <2>1 DEF InSpaces, Spaces09
    <2>6. Cut(u, g, "H", c + 1)
      BY <1>0, <1>1, <2>1, <2>2, <2>5 DEF InSpaces, Cut
    <2>7. Meant(u, g, "H", c + 1)
      BY <1>0, <1>1, <2>1, <2>4, <2>6, AfterTarget DEF InSpaces
    <2> QED
      BY <2>7 DEF g
  <1>4. ASSUME NEW t \in {"check_uri", "uri"}, u[c] \notin AfterSpaces, s # "host_http_09"
        PROVE  Meant(u, f, t, c)
    <2>1. t \in Reading \ (Ahead \cup InSchema \cup InAuthority \cup AfterUri \cup Spaced
                             \cup Protocol)
      BY DEF AfterUri, Protocol, Ahead, InSchema, InAuthority, Reading, Spaced
    <2>2. Protocoled(u, f, t, c)
      BY <1>0, <2>1 DEF InSpaces, Protocoled, Numbered
    <2>3. ~ NoPath(f) /\ f["uri_start"] < c /\ c <= Len(u)
      BY <1>0, <1>4 DEF InSpaces, Ptrs, Pointers, Known
    <2>4. Cut(u, f, t, c)
      BY <1>4, <2>1, <2>3 DEF Cut
    <2>5. c \in Nat /\ c <= c /\ Agree(f, f, BeforeUri)
      BY <1>0 DEF InSpaces, Agree
    <2> QED
      BY <1>0, <2>1, <2>2, <2>4, <2>5, AfterTarget DEF InSpaces
  <1> QED
    BY <1>2, <1>3, <1>4

(* The bytes of the protocol, and what follows it *)
LEMMA ProtocolMeans ==
  ASSUME NEW u, NEW f, NEW c, NEW s \in Numbered, NEW t \in Protocol, Known(u, f, s, c)
  PROVE  Meant(u, f, t, c + 1)
  <1>1. /\ c \in Nat \ {0} /\ c + 1 \in Nat /\ c <= c + 1 /\ f \in Ptrs
        /\ s \in AfterUri /\ t \in AfterUri /\ s \notin Ahead
        /\ t \notin Ahead \cup InSchema \cup InAuthority \cup Reading \cup Spaced
    BY DEF Known, Numbered, Protocol, AfterUri, Ahead, InSchema, InAuthority, Reading, Spaced
  <1>2. f["http_protocol"] # 0
    BY DEF Known, Meant, Protocoled
  <1>3. Protocoled(u, f, t, c + 1)
    <2>1. /\ f["http_protocol"] \in Target(f) + 1 .. c - 1 /\ Begins(u, f["http_protocol"])
          /\ \A k \in Target(f) + 1 .. f["http_protocol"] - 1 : ~ Begins(u, k)
      BY <1>1, <1>2 DEF Known, Meant, Protocoled
    <2>2. Target(f) \in Nat
      BY <1>1 DEF Target, Ptrs, Pointers
    <2>3. f["http_protocol"] \in Target(f) + 1 .. (c + 1) - 1
      BY <1>1, <2>1, <2>2
    <2> QED
      BY <1>2, <2>1, <2>3 DEF Protocoled
  <1>4. Spaces09(u, f, t, c + 1) = Spaces09(u, f, s, c)
    BY <1>2 DEF Spaces09
  <1>5. Cut(u, f, t, c + 1)
    BY <1>1, <1>4 DEF Known, Meant, Cut
  <1> QED
    BY <1>1, <1>3, <1>5, AfterTarget DEF Agree

-----------------------------------------------------------------------------
(* Where the target is when the line has ended *)

LEMMA FirstIs ==
  ASSUME NEW i \in Nat, NEW B, NEW k \in i .. Len(buf), First(buf, i, B, k)
  PROVE  FirstFrom(i, B) = k
  <1> DEFINE S == {j \in i .. Len(buf) : buf[j] \in B}
  <1>1. S \subseteq Nat /\ k \in S
    BY DEF First
  <1>2. \A j \in S : k <= j
    BY DEF First, Free
  <1> HIDE DEF S
  <1>3. Min(S) = k
    BY <1>1, <1>2, MinIs
  <1> QED
    BY <1>3 DEF FirstFrom, S

LEMMA TargetIs ==
  ASSUME LineInv, ReadInv, Parsed, Meant(buf, r.ptr, "almost_done", r.ptr["request_end"] + 1)
  PROVE  TargetFound
  <1> DEFINE f == r.ptr
             eol == f["request_end"]
             space == FirstFrom(LineStart, {SP})
             target == FirstFrom(space, Char \ {SP})
             protocols == {k \in target + 1 .. eol - 1 : buf[k] = "H" /\ buf[k - 1] = SP}
             end == IF protocols = {} THEN eol ELSE Min(protocols)
             stops == {j \in target + 1 .. end : \A i \in j .. end - 1 : buf[i] = SP}
             stop == Min(stops)
             colon == FirstFrom(target, {":"})
             path == FirstFrom(colon + 3, {"/", SP})
             hostEnd == IF buf[colon + 3] = "[" THEN FirstFrom(colon + 3, {"]"}) + 1
                                                ELSE FirstFrom(colon + 3, {":", "/", SP})
             c == eol + 1
  <1>1. /\ f \in Ptrs /\ buf \in Seq(Char) /\ Len(buf) \in Nat /\ pos \in 1 .. Len(buf) + 1
        /\ Ended(buf, f, pos)
    BY DEF LineInv, Typed, Requests, ReadInv
  <1>2. eol \in 1 .. Len(buf) /\ c \in Nat /\ c - 1 = eol /\ buf[eol] \in {CR, LF}
        /\ eol \in Nat
    <2>1. /\ pos - 2 \in 1 .. Len(buf) /\ buf[pos - 1] = LF /\ pos - 1 \in 1 .. Len(buf)
          /\ eol = IF buf[pos - 2] = CR THEN pos - 2 ELSE pos - 1
      BY <1>1 DEF Ended
    <2>2. eol \in 1 .. Len(buf) /\ buf[eol] \in {CR, LF}
      BY <2>1
    <2> QED
      BY <1>1, <2>2
  <1>3. LineStart = Line(f)
    BY <1>1, FoundEnd DEF Line
  <1>4. /\ Named(buf, f, "almost_done", c) /\ Aimed(buf, f, "almost_done", c)
        /\ Schemed(buf, f, "almost_done", c) /\ Pathed(buf, f, "almost_done", c)
        /\ Protocoled(buf, f, "almost_done", c) /\ Cut(buf, f, "almost_done", c)
    BY DEF Meant
  <1> HIDE DEF c
  <1>5. /\ "almost_done" \in Protocol /\ "almost_done" \in AfterUri
        /\ "almost_done" \notin Ahead \cup InSchema \cup InAuthority \cup Reading \cup Spaced
    BY DEF AfterUri, Protocol, Ahead, InSchema, InAuthority, Reading, Spaced
  <1>6. space = Space(f) /\ Space(f) \in Nat
    <2>1. Space(f) < c /\ First(buf, Line(f), {SP}, Space(f))
      BY <1>4 DEF Named
    <2>2. Line(f) \in Nat /\ Space(f) \in Nat /\ Line(f) <= Space(f)
      <3>1. f["request_start"] \in Nat /\ f["method_end"] \in Nat
        BY <1>1 DEF Ptrs, Pointers
      <3>2. Line(f) \in Nat /\ Space(f) \in Nat
        BY <3>1 DEF Line, Space
      <3> QED
        BY <2>1, <3>2 DEF First
    <2>3. Space(f) \in Line(f) .. Len(buf)
      BY <1>1, <1>2, <2>1, <2>2
    <2> QED
      BY <1>3, <2>1, <2>2, <2>3, FirstIs
  <1>7. /\ target = Target(f) /\ Target(f) \in Nat /\ Target(f) < c
        /\ Absolute(f) <=> buf[Target(f)] # "/"
        /\ ~ Absolute(f) => f["host_start"] = 0
    <2>1. /\ Space(f) < Target(f) /\ Target(f) < c
          /\ All(buf, Space(f), Target(f) - 1, {SP}) /\ buf[Target(f)] # SP
          /\ Absolute(f) <=> buf[Target(f)] # "/"
          /\ ~ Absolute(f) => f["host_start"] = 0
      BY <1>4, <1>5 DEF Aimed
    <2>2. Target(f) \in Nat
      BY <1>1 DEF Target, Ptrs, Pointers
    <2>3. Target(f) \in Space(f) .. Len(buf) /\ buf[Target(f)] \in Char \ {SP}
      BY <1>1, <1>2, <1>6, <2>1, <2>2
    <2>4. First(buf, Space(f), Char \ {SP}, Target(f))
      BY <1>6, <2>1, <2>2, <2>3 DEF First, Free, All
    <2> QED
      BY <1>6, <2>1, <2>2, <2>3, <2>4, FirstIs
  <1> HIDE DEF space, target
  <1>8. /\ f["http_protocol"] = IF protocols = {} THEN 0 ELSE end
        /\ end = Spaces09(buf, f, "almost_done", c) /\ end \in Nat /\ end <= eol
    <2>1. CASE f["http_protocol"] = 0
      <3>1. protocols = {}
        BY <1>2, <1>4, <1>5, <1>7, <2>1 DEF Protocoled, Begins
      <3> QED
        BY <1>2, <2>1, <3>1 DEF Spaces09
    <2>2. CASE f["http_protocol"] # 0
      <3>1. /\ f["http_protocol"] \in target + 1 .. eol /\ Begins(buf, f["http_protocol"])
            /\ \A k \in target + 1 .. f["http_protocol"] - 1 : ~ Begins(buf, k)
        BY <1>2, <1>4, <1>5, <1>7, <2>2 DEF Protocoled
      <3>2. f["http_protocol"] # eol
        BY <1>2, <3>1 DEF Begins, CR, LF
      <3>3. f["http_protocol"] \in protocols /\ protocols \subseteq Nat
        <4>1. /\ eol \in Nat /\ target \in Nat
              /\ f["http_protocol"] \in target + 1 .. eol - 1
          BY <1>2, <1>7, <3>1, <3>2
        <4>2. /\ buf[f["http_protocol"]] = "H"
              /\ buf[f["http_protocol"] - 1] = SP
          BY <3>1 DEF Begins
        <4> HIDE DEF eol
        <4> QED
          BY <4>1, <4>2
      <3>4. \A k \in protocols : f["http_protocol"] <= k
        <4>1. f["http_protocol"] \in Nat /\ f["http_protocol"] <= eol /\ target \in Nat
          BY <1>2, <1>7, <3>1
        <4>2. \A k \in protocols : k \in Nat /\ target + 1 <= k /\ Begins(buf, k)
          BY <1>2, <1>7 DEF Begins
        <4>3. \A k \in Nat : target + 1 <= k /\ k < f["http_protocol"] => ~ Begins(buf, k)
          BY <3>1, <4>1
        <4> QED
          BY <4>1, <4>2, <4>3
      <3> HIDE DEF protocols
      <3>5. Min(protocols) = f["http_protocol"] /\ protocols # {}
        BY <3>3, <3>4, MinIs
      <3> QED
        BY <1>2, <1>7, <2>2, <3>1, <3>5 DEF Spaces09
    <2> QED
      BY <2>1, <2>2
  <1> HIDE DEF protocols, end
  <1>9. ~ NoPath(f) /\ target < f["uri_end"] => f["uri_end"] = stop
    <2> SUFFICES ASSUME ~ NoPath(f), target < f["uri_end"] PROVE stop = f["uri_end"]
      OBVIOUS
    <2>1. /\ f["uri_end"] <= end /\ buf[f["uri_end"] - 1] # SP /\ f["uri_end"] \in Nat
          /\ All(buf, f["uri_end"], end - 1, {SP})
      BY <1>1, <1>4, <1>5, <1>8 DEF Cut, Ptrs, Pointers
    <2>2. f["uri_end"] \in stops /\ stops \subseteq Nat
      BY <1>7, <1>8, <2>1 DEF All
    <2>3. \A j \in stops : f["uri_end"] <= j
      BY <1>7, <1>8, <2>1
    <2> HIDE DEF stops
    <2> QED
      BY <2>2, <2>3, MinIs
  <1> HIDE DEF stops, stop
  <1>10. ~ NoPath(f) => f["uri_start"] < f["uri_end"]
    BY <1>4, <1>5 DEF Cut
  <1>11. f["method_end"] = space - 1
    <2>1. f["method_end"] \in Nat /\ space = f["method_end"] + 1
      BY <1>1, <1>6 DEF Space, Ptrs, Pointers
    <2> QED
      BY <2>1
  <1>12. ASSUME buf[target] = "/"
         PROVE  /\ f["uri_start"] = target /\ f["uri_end"] = stop
                /\ f["schema_start"] = 0 /\ f["host_start"] = 0
    <2>1. /\ ~ Absolute(f) /\ ~ NoPath(f) /\ f["uri_start"] = target
          /\ f["schema_start"] = 0 /\ f["host_start"] = 0
      BY <1>7, <1>12 DEF Absolute, NoPath, Target
    <2> QED
      BY <1>9, <1>10, <2>1
  <1>13. ASSUME buf[target] # "/"
         PROVE  /\ f["schema_start"] = target /\ f["schema_end"] = colon
                /\ f["host_start"] = colon + 3 /\ f["host_end"] = hostEnd
                /\ f["port_end"] = IF buf[hostEnd] = ":" THEN path ELSE 0
                /\ buf[path] = "/" => f["uri_start"] = path /\ f["uri_end"] = stop
                /\ buf[path] = SP =>
                     f["uri_start"] = colon + 1 /\ f["uri_end"] = colon + 2
    <2>1. Absolute(f) /\ f["schema_start"] = target
      BY <1>7, <1>13 DEF Target
    <2>2. /\ First(buf, target, {":"}, f["schema_end"]) /\ f["schema_end"] < c
          /\ f["host_start"] = Host3(f) /\ HostFound(buf, f)
          /\ buf[f["host_end"]] # ":" => f["port_end"] = 0
          /\ f["host_end"] <= Path(buf, f) /\ Path(buf, f) < c
          /\ First(buf, f["host_start"], PathStop, Path(buf, f))
          /\ NoPath(f) <=> buf[Path(buf, f)] # "/"
          /\ ~ NoPath(f) => f["uri_start"] = Path(buf, f)
          /\ NoPath(f) => f["uri_end"] = f["schema_end"] + 2
      BY <1>4, <1>5, <2>1 DEF Schemed, Pathed
    <2>3. /\ f["schema_end"] \in Nat /\ f["host_end"] \in Nat /\ f["port_end"] \in Nat
          /\ Path(buf, f) \in Nat /\ f["host_start"] \in Nat
      BY <1>1 DEF Path, Ptrs, Pointers
    <2>4. colon = f["schema_end"]
      <3>1. f["schema_end"] \in target .. Len(buf) /\ target \in Nat
        <4>1. /\ target <= f["schema_end"] /\ f["schema_end"] < c
              /\ f["schema_end"] \in Nat /\ target \in Nat
          BY <1>7, <2>2, <2>3 DEF First
        <4>2. c \in Nat /\ Len(buf) \in Nat /\ c <= Len(buf) + 1
          BY <1>1, <1>2
        <4> QED
          BY <4>1, <4>2
      <3> QED
        BY <2>2, <3>1, FirstIs
    <2>5. f["host_start"] = colon + 3
      BY <2>2, <2>4 DEF Host3
    <2> HIDE DEF colon
    <2>6. path = Path(buf, f)
      <3>1. Path(buf, f) \in f["host_start"] .. Len(buf)
        BY <1>1, <1>2, <2>2, <2>3 DEF First
      <3>2. FirstFrom(f["host_start"], PathStop) = Path(buf, f)
        BY <2>2, <2>3, <3>1, FirstIs
      <3> QED
        BY <2>5, <3>2 DEF PathStop
    <2>7. /\ Path(buf, f) <= Len(buf) /\ Len(buf) \in Nat
          /\ f["host_end"] <= Len(buf) /\ f["host_end"] <= Path(buf, f)
      BY <1>1, <1>2, <2>2, <2>3
    <2>8. f["host_end"] = hostEnd
      <3> DEFINE h == f["host_start"]
      <3>1. h \in Nat /\ f["host_end"] \in Nat /\ Literal(buf, f) = (buf[h] = "[")
        BY <2>3 DEF Literal
      <3>2. CASE buf[h] = "["
        <4>1. First(buf, h, {"]"}, f["host_end"] - 1)
          BY <2>2, <3>1, <3>2 DEF HostFound
        <4>2. f["host_end"] - 1 \in h .. Len(buf)
          BY <2>7, <3>1, <4>1 DEF First
        <4>3. FirstFrom(h, {"]"}) = f["host_end"] - 1
          BY <3>1, <4>1, <4>2, FirstIs
        <4> QED
          BY <2>5, <3>1, <3>2, <4>3
      <3>3. CASE buf[h] # "["
        <4>1. First(buf, h, HostStop, f["host_end"])
          BY <2>2, <3>1, <3>3 DEF HostFound
        <4>2. f["host_end"] \in h .. Len(buf)
          BY <2>7, <3>1, <4>1 DEF First
        <4>3. FirstFrom(h, HostStop) = f["host_end"]
          BY <3>1, <4>1, <4>2, FirstIs
        <4> QED
          BY <2>5, <3>3, <4>3 DEF HostStop
      <3> QED
        BY <3>2, <3>3
    <2>9. f["port_end"] = IF buf[f["host_end"]] = ":" THEN Path(buf, f) ELSE 0
      BY <2>2 DEF Path
    <2>10. buf[path] = "/" => f["uri_start"] = path /\ f["uri_end"] = stop
      <3> SUFFICES ASSUME buf[path] = "/" PROVE f["uri_start"] = path /\ f["uri_end"] = stop
        OBVIOUS
      <3>1. ~ NoPath(f) /\ f["uri_start"] = path
        BY <2>2, <2>6
      <3>2. target <= f["schema_end"] /\ f["schema_end"] + 3 <= path /\ path \in Nat
        BY <2>2, <2>3, <2>6 DEF First, Host3
      <3>3. target < f["uri_end"]
        <4>1. target \in Nat /\ f["uri_end"] \in Nat /\ path < f["uri_end"]
          BY <1>1, <1>7, <1>10, <3>1 DEF Ptrs, Pointers
        <4> QED
          BY <2>3, <3>2, <4>1
      <3> QED
        BY <1>9, <3>1, <3>3
    <2>11. buf[path] = SP => f["uri_start"] = colon + 1 /\ f["uri_end"] = colon + 2
      <3> SUFFICES ASSUME buf[path] = SP PROVE NoPath(f)
        BY <2>2, <2>4 DEF NoPath
      <3> QED
        BY <2>2, <2>6 DEF SP
    <2> QED
      BY <2>1, <2>4, <2>5, <2>6, <2>8, <2>9, <2>10, <2>11
  <1> HIDE DEF f, colon, path, hostEnd, eol
  <1>14. \/ buf[target] = "/"
         \/ buf[target] # "/"
    OBVIOUS
  <1> QED
    BY <1>8, <1>11, <1>12, <1>13, Zenon DEF TargetFound, f, eol, space, target, protocols, end,
       stops, stop, colon, path, hostEnd

-----------------------------------------------------------------------------
(* What the pointers mean does not depend on the end of the request *)

LEMMA MeantEnd ==
  ASSUME NEW u, NEW f, NEW g, NEW s, NEW c, Meant(u, f, s, c),
         Agree(f, g, Pointers \ {"request_end"})
  PROVE  Meant(u, g, s, c)
  <1>1. \A x \in Pointers \ {"request_end"} : g[x] = f[x]
    BY DEF Agree
  <1>2. /\ g["request_start"] = f["request_start"] /\ g["method_end"] = f["method_end"]
        /\ g["schema_start"] = f["schema_start"] /\ g["schema_end"] = f["schema_end"]
        /\ g["host_start"] = f["host_start"] /\ g["host_end"] = f["host_end"]
        /\ g["port_end"] = f["port_end"] /\ g["http_protocol"] = f["http_protocol"]
        /\ g["uri_start"] = f["uri_start"] /\ g["uri_end"] = f["uri_end"]
    BY <1>1 DEF Pointers
  <1>3. /\ Line(g) = Line(f) /\ Space(g) = Space(f) /\ Target(g) = Target(f)
        /\ Absolute(g) = Absolute(f) /\ NoPath(g) = NoPath(f) /\ Host3(g) = Host3(f)
        /\ Path(u, g) = Path(u, f) /\ HostFound(u, g) = HostFound(u, f)
        /\ Literal(u, g) = Literal(u, f) /\ Spaces09(u, g, s, c) = Spaces09(u, f, s, c)
    BY <1>2 DEF Line, Space, Target, Absolute, NoPath, Host3, Path, HostFound, Literal, Spaces09
  <1>4. Named(u, g, s, c) /\ Aimed(u, g, s, c)
    BY <1>2, <1>3 DEF Meant, Named, Aimed
  <1>5. Schemed(u, g, s, c) /\ Hosted(u, g, s, c)
    BY <1>2, <1>3 DEF Meant, Schemed, Hosted
  <1>6. Pathed(u, g, s, c)
    BY <1>2, <1>3 DEF Meant, Pathed
  <1>7. Protocoled(u, g, s, c) /\ Cut(u, g, s, c)
    BY <1>2, <1>3 DEF Meant, Protocoled, Cut
  <1> QED
    BY <1>4, <1>5, <1>6, <1>7 DEF Meant

(* Two buffers are alike up to the byte before c. *)
Alike(u, w, c) == c \in Nat \ {0} /\ \A k \in 1 .. c - 1 : w[k] = u[k]

LEMMA FirstAlike ==
  ASSUME NEW u, NEW w, NEW c, Alike(u, w, c), NEW i \in Nat, NEW j \in Nat, NEW B,
         1 <= i, j < c, First(u, i, B, j)
  PROVE  First(w, i, B, j)
  BY DEF Alike, First, Free

LEMMA FoundAlike ==
  ASSUME NEW u, NEW w, NEW c, Alike(u, w, c), NEW f \in Ptrs,
         1 <= f["host_start"], f["host_end"] < c, HostFound(u, f)
  PROVE  HostFound(w, f) /\ w[f["host_end"]] = u[f["host_end"]]
  <1>1. f["host_start"] \in Nat /\ f["host_end"] \in Nat /\ c \in Nat
    BY DEF Ptrs, Pointers, Alike
  <1>2. /\ f["host_start"] <= f["host_end"]
        /\ Literal(u, f) => f["host_start"] <= f["host_end"] - 1
    BY <1>1 DEF HostFound, First
  <1>3. /\ w[f["host_end"]] = u[f["host_end"]]
        /\ Literal(w, f) = Literal(u, f)
    BY <1>1, <1>2 DEF Alike, Literal
  <1>4. CASE Literal(u, f)
    <2>1. First(u, f["host_start"], {"]"}, f["host_end"] - 1) /\ f["host_end"] - 1 \in Nat
          /\ f["host_end"] - 1 < c
      BY <1>1, <1>2, <1>4 DEF HostFound
    <2>2. First(w, f["host_start"], {"]"}, f["host_end"] - 1)
      BY <1>1, <2>1, FirstAlike
    <2> QED
      BY <1>3, <1>4, <2>2 DEF HostFound
  <1>5. CASE ~ Literal(u, f)
    <2>1. First(u, f["host_start"], HostStop, f["host_end"])
      BY <1>5 DEF HostFound
    <2>2. First(w, f["host_start"], HostStop, f["host_end"])
      BY <1>1, <2>1, FirstAlike
    <2> QED
      BY <1>3, <1>5, <2>2 DEF HostFound
  <1> QED
    BY <1>4, <1>5

(* Bytes that come later do not change it. *)
LEMMA MeantLonger ==
  ASSUME NEW u \in Seq(Char), NEW w \in Seq(Char), Len(u) <= Len(w),
         \A k \in 1 .. Len(u) : w[k] = u[k],
         NEW f \in Ptrs, NEW s, NEW c \in 1 .. Len(u) + 1, Meant(u, f, s, c),
         s \in Ahead \cup InSchema \cup InAuthority \cup Reading \cup AfterUri
  PROVE  Meant(w, f, s, c)
  <1>1. c \in Nat \ {0} /\ c - 1 \in Nat
    OBVIOUS
  <1>2. Alike(u, w, c) /\ \A k \in 1 .. c - 1 : w[k] = u[k]
    BY DEF Alike
  <1>3. \A x \in Pointers : f[x] \in Nat
    BY DEF Ptrs
  <1>4. /\ f["request_start"] \in Nat /\ f["method_end"] \in Nat
        /\ f["schema_start"] \in Nat /\ f["schema_end"] \in Nat
        /\ f["host_start"] \in Nat /\ f["host_end"] \in Nat
        /\ f["port_end"] \in Nat /\ f["http_protocol"] \in Nat
        /\ f["uri_start"] \in Nat /\ f["uri_end"] \in Nat
        /\ Line(f) \in Nat /\ Space(f) \in Nat /\ Target(f) \in Nat
        /\ Path(u, f) \in Nat
    <2>1. /\ f["request_start"] \in Nat /\ f["method_end"] \in Nat
          /\ f["schema_start"] \in Nat /\ f["schema_end"] \in Nat
          /\ f["host_start"] \in Nat /\ f["host_end"] \in Nat
          /\ f["port_end"] \in Nat /\ f["http_protocol"] \in Nat
          /\ f["uri_start"] \in Nat /\ f["uri_end"] \in Nat
      BY <1>3 DEF Pointers
    <2>2. Line(f) \in Nat /\ Space(f) \in Nat
      BY <2>1 DEF Line, Space
    <2>3. Target(f) \in Nat /\ Path(u, f) \in Nat
      BY <2>1 DEF Target, Path
    <2> QED
      BY <2>1, <2>2, <2>3
  <1>5. /\ Named(u, f, s, c) /\ Aimed(u, f, s, c) /\ Schemed(u, f, s, c)
        /\ Hosted(u, f, s, c) /\ Pathed(u, f, s, c) /\ Protocoled(u, f, s, c)
        /\ Cut(u, f, s, c)
    BY DEF Meant
  <1>6. Named(w, f, s, c)
    <2>1. CASE s = "start"
      BY <1>5, <2>1 DEF Named
    <2>2. CASE s = "method"
      <3>1. Line(f) \in 1 .. c - 1 /\ Free(u, Line(f), c - 1, {SP})
        BY <1>5, <2>2 DEF Named
      <3>2. Free(w, Line(f), c - 1, {SP})
        BY <1>1, <1>2, <3>1 DEF Free
      <3> QED
        BY <2>2, <3>1, <3>2 DEF Named
    <2>3. CASE s \notin {"start", "method"}
      <3>1. /\ Line(f) \in 1 .. c - 1 /\ Space(f) < c
            /\ First(u, Line(f), {SP}, Space(f))
        BY <1>5, <2>3 DEF Named
      <3>2. First(w, Line(f), {SP}, Space(f))
        BY <1>1, <1>2, <1>4, <3>1, FirstAlike
      <3> QED
        BY <2>3, <3>1, <3>2 DEF Named
    <2> QED
      BY <2>1, <2>2, <2>3
  <1>7. s \notin {"start", "method"} => Space(f) \in 1 .. c - 1
    <2>1. /\ c \in Nat /\ Line(f) \in Nat /\ Space(f) \in Nat /\ Named(u, f, s, c)
      BY <1>1, <1>4, <1>5
    <2> QED
      BY <2>1 DEF Named, First
  <1>8. s \notin Ahead => Target(f) \in 2 .. c - 1
    <2> SUFFICES ASSUME s \notin Ahead PROVE Target(f) \in 2 .. c - 1
      OBVIOUS
    <2>1. Space(f) < Target(f) /\ Target(f) < c
      BY <1>5 DEF Aimed
    <2>2. Space(f) \in 1 .. c - 1
      BY <1>7 DEF Ahead
    <2>3. c \in Nat /\ Target(f) \in Nat
      BY <1>1, <1>4
    <2> QED
      BY <2>1, <2>2, <2>3
  <1>9. Aimed(w, f, s, c)
    <2>1. CASE s \in Ahead
      <3>1. s = "spaces_before_uri" => All(w, Space(f), c - 1, {SP})
        BY <1>1, <1>2, <1>5, <1>7 DEF Aimed, All
      <3> QED
        BY <1>5, <2>1, <3>1 DEF Aimed
    <2>2. CASE s \notin Ahead
      <3>1. w[Target(f)] = u[Target(f)] /\ Space(f) \in 1 .. c - 1
        BY <1>1, <1>2, <1>7, <1>8, <2>2 DEF Ahead
      <3>2. All(w, Space(f), Target(f) - 1, {SP})
        <4>1. All(u, Space(f), Target(f) - 1, {SP}) /\ Target(f) \in 2 .. c - 1
          BY <1>5, <1>8, <2>2 DEF Aimed
        <4> QED
          BY <1>1, <1>2, <3>1, <4>1 DEF All
      <3> QED
        BY <1>5, <2>2, <3>1, <3>2 DEF Aimed, Ahead
    <2> QED
      BY <2>1, <2>2
  <1>10. Schemed(w, f, s, c)
    <2>1. s = "schema" => Free(w, f["schema_start"], c - 1, {":"})
      <3> SUFFICES ASSUME s = "schema" PROVE Free(w, f["schema_start"], c - 1, {":"})
        OBVIOUS
      <3>1. Absolute(f) /\ Target(f) = f["schema_start"]
        BY <1>5 DEF Aimed, InSchema, Target
      <3>2. f["schema_start"] \in 1 .. c - 1 /\ Free(u, f["schema_start"], c - 1, {":"})
        BY <1>1, <1>5, <1>8, <3>1 DEF Schemed, Ahead
      <3> QED
        BY <1>1, <1>2, <3>2 DEF Free
    <2>2. s \notin Ahead \cup {"schema"} /\ Absolute(f) =>
             /\ First(w, f["schema_start"], {":"}, f["schema_end"])
             /\ s # "schema_slash" => w[f["schema_end"] + 1] = "/"
             /\ s \notin {"schema_slash", "schema_slash_slash"} =>
                  w[f["schema_end"] + 2] = "/"
      <3> SUFFICES ASSUME s \notin Ahead \cup {"schema"}, Absolute(f)
                   PROVE  /\ First(w, f["schema_start"], {":"}, f["schema_end"])
                          /\ s # "schema_slash" => w[f["schema_end"] + 1] = "/"
                          /\ s \notin {"schema_slash", "schema_slash_slash"} =>
                               w[f["schema_end"] + 2] = "/"
        OBVIOUS
      <3>1. /\ First(u, f["schema_start"], {":"}, f["schema_end"]) /\ f["schema_end"] < c
            /\ s # "schema_slash" => u[f["schema_end"] + 1] = "/"
            /\ s \notin {"schema_slash", "schema_slash_slash"} => u[f["schema_end"] + 2] = "/"
        BY <1>5 DEF Schemed
      <3>2. f["schema_start"] \in 1 .. c - 1
        BY <1>1, <1>8 DEF Target
      <3>3. /\ s # "schema_slash" => f["schema_end"] + 1 < c
            /\ s \notin {"schema_slash", "schema_slash_slash"} => f["schema_end"] + 2 < c
        <4>1. \/ s = "schema_slash"
              \/ s = "schema_slash_slash" /\ c = f["schema_end"] + 2
              \/ s \in InAuthority /\ Host3(f) <= c
              \/ s \in Reading \cup AfterUri
          BY <1>5 DEF Schemed, InSchema
        <4>2. s \in Reading \cup AfterUri => Host3(f) < c
          <5>1. s \in Reading \cup AfterUri =>
                  /\ f["host_start"] = Host3(f) /\ Path(u, f) < c
                  /\ First(u, f["host_start"], PathStop, Path(u, f))
            BY <1>5 DEF Pathed
          <5> QED
            BY <1>1, <1>4, <5>1 DEF First, Host3
        <4>3. c \in Nat /\ f["schema_end"] \in Nat
          BY <1>1, <1>4
        <4> QED
          BY <4>1, <4>2, <4>3 DEF Host3, InSchema, InAuthority, Reading, AfterUri, Protocol
      <3>4. First(w, f["schema_start"], {":"}, f["schema_end"])
        BY <1>1, <1>2, <1>4, <3>1, <3>2, FirstAlike
      <3> QED
        <4>1. \A e \in Nat : /\ e + 1 < c => w[e + 1] = u[e + 1]
                            /\ e + 2 < c => w[e + 2] = u[e + 2]
          BY <1>1, <1>2
        <4>2. f["schema_end"] \in Nat
          BY <1>4
        <4> QED
          <5>1. s # "schema_slash" => w[f["schema_end"] + 1] = "/"
            BY <3>1, <3>3, <4>1, <4>2
          <5>2. s \notin {"schema_slash", "schema_slash_slash"} =>
                  w[f["schema_end"] + 2] = "/"
            BY <3>1, <3>3, <4>1, <4>2
          <5> QED
            BY <3>4, <5>1, <5>2
    <2> QED
      BY <1>5, <2>1, <2>2 DEF Schemed
  <1>11. s \in InAuthority \ {"host_start"} =>
           Absolute(f) /\ f["host_start"] = Host3(f) /\ f["host_start"] \in 1 .. c
    BY <1>1, <1>4, <1>5 DEF Hosted, Schemed, Aimed, Host3
  <1>12. Hosted(w, f, s, c)
    <2> DEFINE h == f["host_start"]
    <2>1. CASE s \notin InAuthority \ {"host_start"}
      BY <1>5, <2>1 DEF Hosted, InAuthority
    <2>2. CASE s \in InAuthority \ {"host_start"}
      <3>1. /\ f["port_end"] = 0 /\ h = Host3(f) /\ (h < c \/ c <= Len(u)) /\ h \in 1 .. c
        BY <1>5, <1>11, <2>2 DEF Hosted
      <3>2. w[h] = u[h] /\ Len(w) \in Nat /\ Len(u) \in Nat
        BY <3>1
      <3>3. Literal(w, f) = Literal(u, f)
        BY <3>2 DEF Literal
      <3>4. \A B : Free(u, h, c - 1, B) => Free(w, h, c - 1, B)
        BY <1>1, <1>2, <3>1 DEF Free
      <3>5. /\ s = "host" => ~ Literal(w, f) /\ Free(w, h, c - 1, HostStop)
            /\ s = "host_ip_literal" =>
                 Literal(w, f) /\ Free(w, h, c - 1, {"]", "/", SP})
        BY <1>5, <3>3, <3>4 DEF Hosted
      <3>6. s = "host_end" =>
              /\ Literal(w, f) /\ First(w, h, {"]"}, c - 1)
              /\ Free(w, h, c - 1, PathStop)
        <4> SUFFICES ASSUME s = "host_end" PROVE First(w, h, {"]"}, c - 1)
          BY <1>5, <3>3, <3>4 DEF Hosted
        <4>1. First(u, h, {"]"}, c - 1)
          BY <1>5 DEF Hosted
        <4> QED
          BY <1>1, <1>2, <3>1, <4>1, FirstAlike
      <3>7. s = "port" =>
              /\ HostFound(w, f) /\ w[f["host_end"]] = ":"
              /\ Free(w, h, c - 1, PathStop)
        <4> SUFFICES ASSUME s = "port" PROVE HostFound(w, f) /\ w[f["host_end"]] = ":"
          BY <1>5, <3>4 DEF Hosted
        <4>1. HostFound(u, f) /\ f["host_end"] < c /\ u[f["host_end"]] = ":"
          BY <1>5 DEF Hosted
        <4>2. 1 <= f["host_start"]
          BY <1>1, <3>1
        <4> QED
          BY <1>2, <4>1, <4>2, FoundAlike
      <3> QED
        BY <1>5, <2>2, <3>1, <3>2, <3>5, <3>6, <3>7 DEF Hosted
    <2> QED
      BY <2>1, <2>2
  <1>13. Pathed(w, f, s, c)
    <2> SUFFICES ASSUME s \in Reading \cup AfterUri, Absolute(f) PROVE Pathed(w, f, s, c)
      BY DEF Pathed
    <2>1. /\ f["host_start"] = Host3(f) /\ HostFound(u, f)
          /\ u[f["host_end"]] # ":" => f["port_end"] = 0
          /\ f["host_end"] <= Path(u, f) /\ Path(u, f) < c
          /\ First(u, f["host_start"], PathStop, Path(u, f))
          /\ NoPath(f) <=> u[Path(u, f)] # "/"
          /\ ~ NoPath(f) => f["uri_start"] = Path(u, f)
          /\ NoPath(f) /\ s \in AfterUri => f["uri_end"] = f["schema_end"] + 2
      BY <1>5 DEF Pathed
    <2>2. 1 <= f["host_start"] /\ f["host_end"] < c
      <3>1. c \in Nat /\ f["schema_end"] \in Nat /\ f["host_end"] \in Nat /\ Path(u, f) \in Nat
        BY <1>1, <1>4
      <3> QED
        BY <2>1, <3>1 DEF Host3
    <2>3. HostFound(w, f) /\ w[f["host_end"]] = u[f["host_end"]]
      BY <1>2, <2>1, <2>2, FoundAlike
    <2>4. Path(w, f) = Path(u, f)
      BY <2>3 DEF Path
    <2>5. /\ First(w, f["host_start"], PathStop, Path(u, f))
          /\ w[Path(u, f)] = u[Path(u, f)]
      <3>1. First(w, f["host_start"], PathStop, Path(u, f))
        BY <1>2, <1>4, <2>1, <2>2, FirstAlike
      <3>2. Path(u, f) \in 1 .. c - 1
        <4>1. c \in Nat /\ f["host_start"] \in Nat /\ Path(u, f) \in Nat
          BY <1>1, <1>4
        <4>2. f["host_start"] <= Path(u, f) /\ Path(u, f) < c
          BY <2>1 DEF First
        <4> QED
          BY <2>2, <4>1, <4>2
      <3> QED
        BY <1>2, <3>1, <3>2
    <2> QED
      BY <2>1, <2>3, <2>4, <2>5 DEF Pathed
  <1>14. Protocoled(w, f, s, c)
    <2>1. CASE s \in Ahead
      BY <1>5, <2>1 DEF Protocoled
    <2>2. CASE s \notin Ahead
      <3>1. \A k \in Target(f) + 1 .. c - 1 : Begins(w, k) <=> Begins(u, k)
        BY <1>1, <1>2, <1>8, <2>2 DEF Begins
      <3>2. /\ s \in Numbered => f["http_protocol"] # 0
            /\ s \notin Protocol => f["http_protocol"] = 0
            /\ IF f["http_protocol"] = 0 THEN \A k \in Target(f) + 1 .. c - 1 : ~ Begins(u, k)
               ELSE /\ f["http_protocol"] \in Target(f) + 1 .. c - 1
                    /\ Begins(u, f["http_protocol"])
                    /\ \A k \in Target(f) + 1 .. f["http_protocol"] - 1 : ~ Begins(u, k)
        BY <1>5, <2>2 DEF Protocoled
      <3>3. CASE f["http_protocol"] = 0
        BY <3>1, <3>2, <3>3 DEF Protocoled
      <3>4. CASE f["http_protocol"] # 0
        <4>1. \A k \in Target(f) + 1 .. f["http_protocol"] - 1 : ~ Begins(w, k)
          BY <1>1, <1>4, <3>1, <3>2, <3>4
        <4> QED
          BY <3>1, <3>2, <3>4, <4>1 DEF Protocoled
      <3> QED
        BY <3>3, <3>4
    <2> QED
      BY <2>1, <2>2
  <1>15. Cut(w, f, s, c)
    <2>1. s \in InSchema \cup InAuthority => Free(w, Target(f), c - 1, {SP})
      <3> SUFFICES ASSUME s \in InSchema \cup InAuthority
                   PROVE  Free(w, Target(f), c - 1, {SP})
        OBVIOUS
      <3>1. Target(f) \in 1 .. c - 1 /\ Free(u, Target(f), c - 1, {SP})
        BY <1>1, <1>5, <1>8 DEF Cut, Ahead, InSchema, InAuthority
      <3> QED
        BY <1>1, <1>2, <3>1 DEF Free
    <2>2. s \in Reading \cup AfterUri => w[c - 1] = u[c - 1]
      <3> SUFFICES ASSUME s \in Reading \cup AfterUri PROVE w[c - 1] = u[c - 1]
        OBVIOUS
      <3>1. s \notin Ahead
        BY DEF Ahead, Reading, AfterUri, Protocol
      <3> QED
        BY <1>1, <1>2, <1>8, <3>1
    <2>3. s \in Reading =>
            /\ ~ NoPath(f) /\ f["uri_start"] < c
            /\ w[c - 1] = SP => c <= Len(w) /\ w[c] \notin AfterSpaces
      BY <1>1, <1>5, <2>2 DEF Cut
    <2>4. s \in AfterUri /\ ~ NoPath(f) =>
            /\ w[f["uri_end"] - 1] # SP
            /\ All(w, f["uri_end"], Spaces09(w, f, s, c) - 1, {SP})
      <3> SUFFICES ASSUME s \in AfterUri, ~ NoPath(f)
                   PROVE  /\ w[f["uri_end"] - 1] # SP
                          /\ All(w, f["uri_end"], Spaces09(w, f, s, c) - 1, {SP})
        OBVIOUS
      <3>1. /\ f["uri_start"] < f["uri_end"] /\ f["uri_end"] <= Spaces09(u, f, s, c)
            /\ u[f["uri_end"] - 1] # SP
            /\ All(u, f["uri_end"], Spaces09(u, f, s, c) - 1, {SP})
            /\ Spaces09(w, f, s, c) = Spaces09(u, f, s, c)
        BY <1>5 DEF Cut, Spaces09
      <3>2. Spaces09(u, f, s, c) \in Nat /\ Spaces09(u, f, s, c) <= c
        <4>1. s \notin Ahead
          BY DEF Ahead, AfterUri, Protocol
        <4>2. f["http_protocol"] # 0 => f["http_protocol"] <= c - 1
          BY <1>5, <4>1 DEF Protocoled
        <4>3. \/ Spaces09(u, f, s, c) = f["http_protocol"] /\ f["http_protocol"] # 0
              \/ Spaces09(u, f, s, c) = c - 1
              \/ Spaces09(u, f, s, c) = c
          BY DEF Spaces09
        <4>4. f["http_protocol"] \in Nat
          BY <1>4
        <4> QED
          BY <1>1, <4>2, <4>3, <4>4
      <3>3. f["uri_start"] \in Nat /\ 1 <= f["uri_start"]
        <4>1. CASE Absolute(f)
          <5>1. /\ f["host_start"] = Host3(f) /\ f["uri_start"] = Path(u, f)
                /\ First(u, f["host_start"], PathStop, Path(u, f))
            BY <1>5, <4>1 DEF Pathed
          <5> QED
            BY <1>4, <5>1 DEF First, Host3
        <4>2. CASE ~ Absolute(f)
          BY <1>4, <1>8, <4>2 DEF Target, Ahead, AfterUri, Protocol
        <4> QED
          BY <4>1, <4>2
      <3> DEFINE e == f["uri_end"]
                 d == Spaces09(u, f, s, c)
      <3>4. e \in Nat /\ d \in Nat /\ d <= c /\ 2 <= e /\ e <= d
        BY <1>4, <3>1, <3>2, <3>3
      <3>5. u[e - 1] # SP /\ All(u, e, d - 1, {SP})
        BY <3>1
      <3> HIDE DEF e, d
      <3>6. w[e - 1] # SP /\ All(w, e, d - 1, {SP})
        <4>1. e - 1 \in 1 .. c - 1 /\ \A k \in e .. d - 1 : k \in 1 .. c - 1
          BY <1>1, <3>4
        <4> QED
          BY <1>2, <3>5, <4>1 DEF All
      <3> QED
        BY <3>1, <3>6 DEF e, d
    <2> QED
      BY <1>5, <2>1, <2>2, <2>3, <2>4 DEF Cut, Spaced, AfterUri, Spaces09
  <1> QED
    BY <1>6, <1>9, <1>10, <1>12, <1>13, <1>14, <1>15 DEF Meant

-----------------------------------------------------------------------------
(* The pointers of the request that is parsed mean what Meant says. *)
TellInv ==
  /\ busy => Meant(buf, r.ptr, state, p)
  /\ ~ busy /\ Pending => Meant(buf, r.ptr, r.state, pos)
  /\ Parsed => Meant(buf, r.ptr, "almost_done", r.ptr["request_end"] + 1)

LEMMA StatesAre ==
  States = {"start", "method"} \cup Ahead \cup InSchema \cup InAuthority \cup Reading \cup AfterUri
  BY DEF States, Ahead, InSchema, InAuthority, Reading, AfterUri, Protocol

(* What is known when a byte is looked at *)
LEMMA KnownHere ==
  ASSUME LineInv, ReadInv, TellInv, NEW s \in States, At(s)
  PROVE  /\ Known(buf, r.ptr, s, p) /\ r \in Requests /\ r.ptr \in Ptrs
         /\ p \in Nat \ {0} /\ p - 1 \in Nat /\ p + 1 \in Nat /\ r.ptr["request_end"] = 0
  BY Here DEF Known, TellInv, LineInv, Typed, At, Place, Begun

(* The ways on, with what the pointers mean at the byte they lead to *)
Leads(q) ==
  \/ \E t \in States : Go(t, q) /\ Meant(buf, q.ptr, t, p + 1)
  \/ \E t \in States : GoSame(t, q) /\ Meant(buf, q.ptr, t, p)
  \/ Done(q) /\ q \in Requests /\ Meant(buf, q.ptr, "almost_done", EndOf(q) + 1)
  \/ \E code \in {"INVALID_METHOD", "INVALID_REQUEST"} : Fail(code, q)

LEMMA LeadsTell ==
  ASSUME LineInv, TellInv, NEW s, At(s), NEW q, Leads(q)
  PROVE  TellInv'
  <1>1. busy /\ Pending
    BY DEF At, LineInv, Places
  <1>2. ASSUME NEW t \in States, Go(t, q), Meant(buf, q.ptr, t, p + 1) PROVE TellInv'
    BY <1>1, <1>2 DEF TellInv, Go, ioVars, Parsed, Pending
  <1>3. ASSUME NEW t \in States, GoSame(t, q), Meant(buf, q.ptr, t, p) PROVE TellInv'
    BY <1>1, <1>3 DEF TellInv, GoSame, ioVars, Parsed, Pending
  <1>4. ASSUME NEW code \in {"INVALID_METHOD", "INVALID_REQUEST"}, Fail(code, q)
        PROVE  TellInv'
    BY <1>4 DEF TellInv, Fail, Parsed, Pending
  <1>5. ASSUME Done(q), q \in Requests, Meant(buf, q.ptr, "almost_done", EndOf(q) + 1)
        PROVE  TellInv'
    <2>1. /\ r' \in Requests /\ r'.ptr = [q.ptr EXCEPT !["request_end"] = EndOf(q)]
          /\ busy' = FALSE /\ rc' \in {"OK", "INVALID_09_METHOD"} /\ buf' = buf
      BY <1>5, DoneFacts
    <2>2. /\ q.ptr \in Ptrs /\ r'.ptr \in Ptrs /\ "request_end" \in Pointers
          /\ EndOf(q) = r'.ptr["request_end"]
          /\ \A x \in Pointers \ {"request_end"} : r'.ptr[x] = q.ptr[x]
      BY <1>5, <2>1 DEF Requests, Ptrs, Pointers
    <2>3. Agree(q.ptr, r'.ptr, Pointers \ {"request_end"})
      BY <2>2 DEF Agree
    <2>4. Meant(buf, r'.ptr, "almost_done", r'.ptr["request_end"] + 1)
      BY <1>5, <2>2, <2>3, MeantEnd
    <2>5. Meant(buf, r.ptr, "almost_done", r.ptr["request_end"] + 1)'
      BY <2>1, <2>4
    <2> QED
      BY <2>1, <2>5 DEF TellInv, Pending
  <1> QED
    BY <1>2, <1>3, <1>4, <1>5 DEF Leads

(* A line that ends with the LF that is looked at *)
LEMMA LfLeads ==
  ASSUME NEW q \in Requests, q.ptr["request_end"] = 0, Done(q),
         Meant(buf, q.ptr, "almost_done", p + 1)
  PROVE  Leads(q)
  BY DEF Leads, EndOf

LEMMA StartTells == ASSUME LineInv, ReadInv, TellInv, Start PROVE TellInv'
  <1> DEFINE q == Point(r, "request_start", p)
  <1>1. /\ At("start") /\ {"start", "method"} \subseteq States /\ "request_start" \in Pointers
        /\ SP \notin MethodChar
    BY DEF Start, States, Pointers, MethodChar, Upper, SP
  <1>2. Known(buf, r.ptr, "start", p) /\ r \in Requests /\ p \in Nat
    BY <1>1, KnownHere
  <1>3. q.ptr = [r.ptr EXCEPT !["request_start"] = p]
    BY <1>1, <1>2, PointFacts
  <1>4. \/ ch \in {CR, LF} /\ Go("start", q)
        \/ ch \in MethodChar /\ Go("method", q)
        \/ Fail("INVALID_METHOD", q)
    BY DEF Start
  <1> HIDE DEF q
  <1>5. /\ Meant(buf, q.ptr, "start", p + 1)
        /\ ch # SP => Meant(buf, q.ptr, "method", p + 1)
    <2>1. /\ Meant(buf, [r.ptr EXCEPT !["request_start"] = p], "start", p + 1)
          /\ buf[p] # SP => Meant(buf, [r.ptr EXCEPT !["request_start"] = p], "method", p + 1)
      BY <1>2, StartMeans
    <2> QED
      BY <1>3, <2>1 DEF ch
  <1>6. Leads(q)
    BY <1>1, <1>4, <1>5 DEF Leads
  <1> QED
    BY <1>1, <1>6, LeadsTell

LEMMA MethodTells == ASSUME LineInv, ReadInv, TellInv, Method PROVE TellInv'
  <1> DEFINE name == SubSeq(buf, r.ptr["request_start"], p - 1)
             m == IF name \in KnownMethods THEN name ELSE r.method
             q1 == Point(r, "method_end", p - 1)
             q == [q1 EXCEPT !.method = m]
  <1>1. /\ At("method") /\ {"method", "spaces_before_uri"} \subseteq States
        /\ "method_end" \in Pointers /\ SP \notin MethodChar
    BY DEF Method, States, Pointers, MethodChar, Upper, SP
  <1>2. Known(buf, r.ptr, "method", p) /\ r \in Requests /\ p - 1 \in Nat
    BY <1>1, KnownHere
  <1>3. /\ q1.ptr = [r.ptr EXCEPT !["method_end"] = p - 1] /\ q1 \in Requests
        /\ q1.method = r.method
    BY <1>1, <1>2, PointFacts DEF Point
  <1>4. \/ ch = SP /\ Go("spaces_before_uri", q)
        \/ ch \in MethodChar /\ Go("method", r)
        \/ Fail("INVALID_METHOD", r)
    BY <1>3 DEF Method
  <1> HIDE DEF q1, m
  <1>5. q.ptr = q1.ptr
    BY <1>3 DEF Requests
  <1> HIDE DEF q
  <1>6. /\ ch # SP => Meant(buf, r.ptr, "method", p + 1)
        /\ ch = SP => Meant(buf, q.ptr, "spaces_before_uri", p + 1)
    <2>1. /\ buf[p] # SP => Meant(buf, r.ptr, "method", p + 1)
          /\ buf[p] = SP =>
               Meant(buf, [r.ptr EXCEPT !["method_end"] = p - 1], "spaces_before_uri", p + 1)
      BY <1>2, MethodMeans
    <2> QED
      BY <1>3, <1>5, <2>1 DEF ch
  <1>7. Leads(q) \/ Leads(r)
    BY <1>1, <1>4, <1>6 DEF Leads
  <1> QED
    BY <1>1, <1>7, LeadsTell

LEMMA SpacesBeforeUriTells == ASSUME LineInv, ReadInv, TellInv, SpacesBeforeUri PROVE TellInv'
  <1> DEFINE qu == Point(r, "uri_start", p)
             qs == Point(r, "schema_start", p)
  <1>1. /\ At("spaces_before_uri") /\ {"uri_start", "schema_start"} \subseteq Pointers
        /\ {"spaces_before_uri", "after_slash_in_uri", "schema"} \subseteq States
        /\ Letter \cap {SP, ":", "/"} = {}
    BY DEF SpacesBeforeUri, States, Pointers, Letter, Upper, Lower, SP
  <1>2. Known(buf, r.ptr, "spaces_before_uri", p) /\ r \in Requests /\ p \in Nat
    BY <1>1, KnownHere
  <1>3. /\ qu.ptr = [r.ptr EXCEPT !["uri_start"] = p]
        /\ qs.ptr = [r.ptr EXCEPT !["schema_start"] = p]
    BY <1>1, <1>2, PointFacts
  <1>4. \/ ch = "/" /\ Go("after_slash_in_uri", qu)
        \/ ch \in Letter /\ Go("schema", qs)
        \/ ch = SP /\ Go("spaces_before_uri", r)
        \/ Fail("INVALID_REQUEST", r)
    BY DEF SpacesBeforeUri, Invalid
  <1> HIDE DEF qu, qs
  <1>5. /\ ch = SP => Meant(buf, r.ptr, "spaces_before_uri", p + 1)
        /\ ch = "/" => Meant(buf, qu.ptr, "after_slash_in_uri", p + 1)
        /\ ch \notin {SP, ":", "/"} => Meant(buf, qs.ptr, "schema", p + 1)
    BY <1>2, <1>3, SpacesMean DEF ch
  <1>6. Leads(r) \/ Leads(qu) \/ Leads(qs)
    BY <1>1, <1>4, <1>5 DEF Leads
  <1> QED
    BY <1>1, <1>6, LeadsTell

LEMMA SchemaTells == ASSUME LineInv, ReadInv, TellInv, Schema PROVE TellInv'
  <1> DEFINE q == Point(r, "schema_end", p)
  <1>1. /\ At("schema") /\ {"schema", "schema_slash"} \subseteq States
        /\ "schema_end" \in Pointers /\ Letter \cap {SP, ":"} = {}
    BY DEF Schema, States, Pointers, Letter, Upper, Lower, SP
  <1>2. Known(buf, r.ptr, "schema", p) /\ r \in Requests /\ p \in Nat
    BY <1>1, KnownHere
  <1>3. q.ptr = [r.ptr EXCEPT !["schema_end"] = p]
    BY <1>1, <1>2, PointFacts
  <1>4. \/ ch \in Letter /\ Go("schema", r)
        \/ ch = ":" /\ Go("schema_slash", q)
        \/ Fail("INVALID_REQUEST", r)
    BY DEF Schema, Invalid
  <1> HIDE DEF q
  <1>5. /\ ch \notin {":", SP} => Meant(buf, r.ptr, "schema", p + 1)
        /\ ch = ":" => Meant(buf, q.ptr, "schema_slash", p + 1)
    BY <1>2, <1>3, SchemaMeans DEF ch
  <1>6. Leads(r) \/ Leads(q)
    BY <1>1, <1>4, <1>5 DEF Leads
  <1> QED
    BY <1>1, <1>6, LeadsTell

LEMMA SlashesTell ==
  ASSUME LineInv, ReadInv, TellInv, SchemaSlash \/ SchemaSlashSlash
  PROVE  TellInv'
  <1>1. {"schema_slash", "schema_slash_slash", "host_start"} \subseteq States
    BY DEF States
  <1>2. CASE SchemaSlash
    <2>1. /\ At("schema_slash")
          /\ \/ ch = "/" /\ Go("schema_slash_slash", r)
             \/ Fail("INVALID_REQUEST", r)
      BY <1>2 DEF SchemaSlash, Expect, Invalid
    <2>2. Known(buf, r.ptr, "schema_slash", p)
      BY <1>1, <2>1, KnownHere
    <2>3. ch = "/" => Meant(buf, r.ptr, "schema_slash_slash", p + 1)
      BY <2>2, SlashMeans DEF ch
    <2> QED
      BY <1>1, <2>1, <2>3, LeadsTell DEF Leads
  <1>3. CASE SchemaSlashSlash
    <2>1. /\ At("schema_slash_slash")
          /\ \/ ch = "/" /\ Go("host_start", r)
             \/ Fail("INVALID_REQUEST", r)
      BY <1>3 DEF SchemaSlashSlash, Expect, Invalid
    <2>2. Known(buf, r.ptr, "schema_slash_slash", p)
      BY <1>1, <2>1, KnownHere
    <2>3. ch = "/" => Meant(buf, r.ptr, "host_start", p + 1)
      BY <2>2, SlashMeans DEF ch
    <2> QED
      BY <1>1, <2>1, <2>3, LeadsTell DEF Leads
  <1> QED
    BY <1>2, <1>3

LEMMA HttpTells ==
  ASSUME LineInv, ReadInv, TellInv, HttpH \/ HttpHT \/ HttpHTT \/ HttpHTTP
  PROVE  TellInv'
  <1>1. /\ {"H", "HT", "HTT", "HTTP"} \subseteq Numbered
        /\ {"HT", "HTT", "HTTP", "first_major_digit"} \subseteq Protocol
        /\ Numbered \subseteq States /\ Protocol \subseteq States
    BY DEF Numbered, Protocol, States
  <1>2. PICK s \in Numbered, t \in Protocol :
          At(s) /\ (Go(t, r) \/ Fail("INVALID_REQUEST", r))
    BY <1>1 DEF HttpH, HttpHT, HttpHTT, HttpHTTP, Expect, Invalid
  <1>3. Meant(buf, r.ptr, t, p + 1)
    <2>1. Known(buf, r.ptr, s, p)
      BY <1>1, <1>2, KnownHere
    <2> QED
      BY <2>1, ProtocolMeans
  <1>4. Leads(r)
    BY <1>1, <1>2, <1>3 DEF Leads
  <1> QED
    BY <1>2, <1>4, LeadsTell

(* The pointers with the "/" of the schema for a URI *)
LEMMA SlashAgrees ==
  ASSUME NEW q \in Requests
  PROVE  LET f == SlashOfSchema(q).ptr IN
         /\ f \in Ptrs /\ q.ptr \in Ptrs
         /\ f["uri_start"] = f["schema_end"] + 1 /\ f["uri_end"] = f["schema_end"] + 2
         /\ \A x \in Pointers \ {"uri_start", "uri_end"} : f[x] = q.ptr[x]
  <1> DEFINE v == q.ptr["schema_end"]
             g == [q.ptr EXCEPT !["uri_start"] = v + 1]
             f == SlashOfSchema(q).ptr
  <1>1. {"schema_end", "uri_start", "uri_end"} \subseteq Pointers
    BY DEF Pointers
  <1>2. q.ptr \in Ptrs /\ v + 1 \in Nat /\ v + 2 \in Nat
    BY <1>1 DEF Requests, Ptrs
  <1>3. f = [g EXCEPT !["uri_end"] = v + 2]
    BY SlashFacts
  <1> HIDE DEF v, f
  <1>4. /\ g \in Ptrs /\ g["uri_start"] = v + 1
        /\ \A x \in Pointers \ {"uri_start"} : g[x] = q.ptr[x]
    BY <1>1, <1>2 DEF Ptrs
  <1> HIDE DEF g
  <1>5. /\ f \in Ptrs /\ f["uri_start"] = v + 1 /\ f["uri_end"] = v + 2
        /\ \A x \in Pointers \ {"uri_start", "uri_end"} : f[x] = q.ptr[x]
    BY <1>1, <1>2, <1>3, <1>4 DEF Ptrs
  <1>6. f["schema_end"] = v
    BY <1>1, <1>5 DEF v
  <1> QED
    BY <1>2, <1>5, <1>6 DEF f

LEMMA HostEndsTell ==
  ASSUME LineInv, ReadInv, TellInv, NEW s \in States, At(s), NEW q \in Requests,
         NEW t \in {"host", "host_end"}, Known(buf, q.ptr, t, p), HostEnds(q)
  PROVE  TellInv'
  <1> DEFINE h == Point(q, "host_end", p)
             hu == Point(h, "uri_start", p)
             hs == SlashOfSchema(h)
  <1>1. /\ {"port", "after_slash_in_uri", "host_http_09"} \subseteq States
        /\ {"host_end", "uri_start", "uri_end"} \subseteq Pointers
    BY DEF States, Pointers
  <1>2. p \in Nat /\ q.ptr \in Ptrs
    BY KnownHere DEF Requests
  <1>3. h \in Requests /\ h.ptr = [q.ptr EXCEPT !["host_end"] = p]
    BY <1>1, <1>2, PointFacts
  <1>4. \/ ch = ":" /\ Go("port", h)
        \/ ch = "/" /\ Go("after_slash_in_uri", hu)
        \/ ch = SP /\ Go("host_http_09", hs)
        \/ Fail("INVALID_REQUEST", h)
    BY DEF HostEnds, Invalid
  <1> HIDE DEF h
  <1>5. hu.ptr = [h.ptr EXCEPT !["uri_start"] = p]
    BY <1>2, <1>3, UriPointFacts
  <1> HIDE DEF hu, hs
  <1> DEFINE X == {"request_start", "method_end", "schema_start", "schema_end", "host_start",
                   "port_end", "http_protocol"}
  <1>7. /\ Agree(q.ptr, h.ptr, X) /\ h.ptr["host_end"] = p /\ h.ptr \in Ptrs
    BY <1>1, <1>2, <1>3 DEF Agree, Ptrs, Pointers
  <1>8. /\ Agree(q.ptr, hu.ptr, X) /\ hu.ptr["host_end"] = p /\ hu.ptr["uri_start"] = p
    BY <1>1, <1>2, <1>5, <1>7 DEF Agree, Ptrs, Pointers
  <1>9. /\ Agree(q.ptr, hs.ptr, X) /\ hs.ptr["host_end"] = p
        /\ hs.ptr["uri_start"] = hs.ptr["schema_end"] + 1
        /\ hs.ptr["uri_end"] = hs.ptr["schema_end"] + 2
    <2>1. X \subseteq Pointers \ {"uri_start", "uri_end"} /\ "host_end" \in Pointers
      BY DEF Pointers
    <2> QED
      BY <1>3, <1>7, <2>1, SlashAgrees DEF Agree, hs
  <1>10. /\ ch = ":" => Meant(buf, h.ptr, "port", p + 1)
         /\ ch = "/" => Meant(buf, hu.ptr, "after_slash_in_uri", p + 1)
         /\ ch = SP => Meant(buf, hs.ptr, "host_http_09", p + 1)
    BY <1>7, <1>8, <1>9, HostEndsMean DEF ch
  <1>11. Leads(h) \/ Leads(hu) \/ Leads(hs)
    BY <1>1, <1>4, <1>10 DEF Leads
  <1> QED
    BY <1>11, LeadsTell

LEMMA InHostTells ==
  ASSUME LineInv, ReadInv, TellInv, NEW s \in States, At(s), NEW q \in Requests,
         Known(buf, q.ptr, "host", p), InHost(q)
  PROVE  TellInv'
  <1>1. CASE ch \in HostChar /\ Go("host", q)
    <2>1. buf[p] \notin HostStop /\ buf[p] \notin PathStop
      BY <1>1 DEF ch, HostChar, Letter, Upper, Lower, Digit, HostStop, PathStop, SP
    <2>2. Meant(buf, q.ptr, "host", p + 1)
      BY <2>1, InAuthorityMeans
    <2> QED
      BY <1>1, <2>2, LeadsTell DEF Leads, States
  <1>2. CASE HostEnds(q)
    BY <1>2, HostEndsTell
  <1> QED
    BY <1>1, <1>2 DEF InHost

LEMMA HostStartTells == ASSUME LineInv, ReadInv, TellInv, HostStart PROVE TellInv'
  <1> DEFINE q == Point(r, "host_start", p)
  <1>1. /\ At("host_start") /\ {"host_start", "host_ip_literal"} \subseteq States
        /\ "host_start" \in Pointers
    BY DEF HostStart, States, Pointers
  <1>2. Known(buf, r.ptr, "host_start", p) /\ r \in Requests /\ p \in Nat
    BY <1>1, KnownHere
  <1>3. q \in Requests /\ q.ptr = [r.ptr EXCEPT !["host_start"] = p]
    BY <1>1, <1>2, PointFacts
  <1>4. (ch = "[" /\ Go("host_ip_literal", q)) \/ (ch # "[" /\ InHost(q))
    BY DEF HostStart
  <1> HIDE DEF q
  <1>5. /\ ch = "[" => Meant(buf, q.ptr, "host_ip_literal", p + 1)
        /\ ch # "[" => Known(buf, q.ptr, "host", p)
    BY <1>2, <1>3, HostStartMeans DEF ch
  <1>6. CASE ch = "[" /\ Go("host_ip_literal", q)
    BY <1>1, <1>5, <1>6, LeadsTell DEF Leads
  <1>7. CASE ch # "[" /\ InHost(q)
    BY <1>1, <1>3, <1>5, <1>7, InHostTells
  <1> QED
    BY <1>4, <1>6, <1>7

LEMMA HostTells ==
  ASSUME LineInv, ReadInv, TellInv, Host \/ HostEnd \/ HostIpLiteral
  PROVE  TellInv'
  <1>1. {"host", "host_end", "host_ip_literal"} \subseteq States
    BY DEF States
  <1>2. CASE Host
    <2>1. At("host") /\ InHost(r) /\ Known(buf, r.ptr, "host", p) /\ r \in Requests
      BY <1>1, <1>2, KnownHere DEF Host
    <2> QED
      BY <1>1, <2>1, InHostTells
  <1>3. CASE HostEnd
    <2>1. /\ At("host_end") /\ HostEnds(r) /\ Known(buf, r.ptr, "host_end", p)
          /\ r \in Requests
      BY <1>1, <1>3, KnownHere DEF HostEnd
    <2> QED
      BY <1>1, <2>1, HostEndsTell
  <1>4. CASE HostIpLiteral
    <2> DEFINE literal == Letter \cup Digit \cup Mark \cup {":", "-", ".", "_", "~"}
    <2>1. /\ At("host_ip_literal")
          /\ \/ ch \in literal /\ Go("host_ip_literal", r)
             \/ ch = "]" /\ Go("host_end", r)
             \/ Fail("INVALID_REQUEST", r)
      BY <1>4 DEF HostIpLiteral, Invalid
    <2>2. (literal \cup {"]"}) \cap PathStop = {} /\ "]" \notin literal
      BY DEF Letter, Upper, Lower, Digit, Mark, PathStop, SP
    <2> HIDE DEF literal
    <2>3. Known(buf, r.ptr, "host_ip_literal", p)
      BY <1>1, <2>1, KnownHere
    <2>4. /\ ch \in literal => Meant(buf, r.ptr, "host_ip_literal", p + 1)
          /\ ch = "]" => Meant(buf, r.ptr, "host_end", p + 1)
      BY <2>2, <2>3, InAuthorityMeans DEF ch
    <2> QED
      BY <1>1, <2>1, <2>4, LeadsTell DEF Leads
  <1> QED
    BY <1>2, <1>3, <1>4

LEMMA PortTells == ASSUME LineInv, ReadInv, TellInv, Port PROVE TellInv'
  <1> DEFINE h == Point(r, "port_end", p)
             hu == Point(h, "uri_start", p)
             hs == SlashOfSchema(h)
  <1>1. /\ At("port") /\ {"port", "after_slash_in_uri", "host_http_09"} \subseteq States
        /\ {"port_end", "uri_start", "uri_end"} \subseteq Pointers
        /\ Digit \cap PathStop = {}
    BY DEF Port, States, Pointers, Digit, PathStop, SP
  <1>2. p \in Nat /\ r \in Requests /\ r.ptr \in Ptrs /\ Known(buf, r.ptr, "port", p)
    BY <1>1, KnownHere
  <1>3. h \in Requests /\ h.ptr = [r.ptr EXCEPT !["port_end"] = p]
    BY <1>1, <1>2, PointFacts
  <1>4. \/ ch \in Digit /\ Go("port", r)
        \/ ch = "/" /\ Go("after_slash_in_uri", hu)
        \/ ch = SP /\ Go("host_http_09", hs)
        \/ Fail("INVALID_REQUEST", r)
    BY DEF Port, Invalid
  <1> HIDE DEF h
  <1>5. hu.ptr = [h.ptr EXCEPT !["uri_start"] = p]
    BY <1>2, <1>3, UriPointFacts
  <1> HIDE DEF hu, hs
  <1> DEFINE X == {"request_start", "method_end", "schema_start", "schema_end", "host_start",
                   "host_end", "http_protocol"}
  <1>7. /\ Agree(r.ptr, h.ptr, X) /\ h.ptr["port_end"] = p /\ h.ptr \in Ptrs
    BY <1>1, <1>2, <1>3 DEF Agree, Ptrs, Pointers
  <1>8. /\ Agree(r.ptr, hu.ptr, X) /\ hu.ptr["port_end"] = p /\ hu.ptr["uri_start"] = p
    BY <1>1, <1>2, <1>5, <1>7 DEF Agree, Ptrs, Pointers
  <1>9. /\ Agree(r.ptr, hs.ptr, X) /\ hs.ptr["port_end"] = p
        /\ hs.ptr["uri_start"] = hs.ptr["schema_end"] + 1
        /\ hs.ptr["uri_end"] = hs.ptr["schema_end"] + 2
    <2>1. X \subseteq Pointers \ {"uri_start", "uri_end"} /\ "port_end" \in Pointers
      BY DEF Pointers
    <2> QED
      BY <1>3, <1>7, <2>1, SlashAgrees DEF Agree, hs
  <1>10. /\ ch = "/" => Meant(buf, hu.ptr, "after_slash_in_uri", p + 1)
         /\ ch = SP => Meant(buf, hs.ptr, "host_http_09", p + 1)
    BY <1>2, <1>8, <1>9, PortEndsMean DEF ch
  <1>11. ch \in Digit => Meant(buf, r.ptr, "port", p + 1)
    BY <1>1, <1>2, InAuthorityMeans DEF ch
  <1>12. Leads(r) \/ Leads(hu) \/ Leads(hs)
    BY <1>1, <1>4, <1>10, <1>11 DEF Leads
  <1> QED
    BY <1>1, <1>12, LeadsTell

LEMMA SpacesTell ==
  ASSUME LineInv, ReadInv, TellInv, NEW s \in Spaced, At(s), Spaces(s)
  PROVE  TellInv'
  <1> DEFINE q == Point(r, "http_protocol", p)
             n == Nine(r)
  <1>1. Spaced \cup {"H", "almost_done"} \subseteq States /\ "http_protocol" \in Pointers
    BY DEF Spaced, States, Pointers
  <1>2. /\ Known(buf, r.ptr, s, p) /\ r \in Requests /\ p \in Nat
        /\ r.ptr["request_end"] = 0
    BY <1>1, KnownHere
  <1>3. q.ptr = [r.ptr EXCEPT !["http_protocol"] = p] /\ n \in Requests /\ n.ptr = r.ptr
    BY <1>1, <1>2, PointFacts, NineFacts
  <1>4. \/ ch = SP /\ Go(s, r)
        \/ ch = CR /\ Go("almost_done", n)
        \/ ch = LF /\ Done(n)
        \/ ch = "H" /\ Go("H", q)
    BY DEF Spaces, Ends09
  <1> HIDE DEF q, n
  <1>5. ch = SP => Meant(buf, r.ptr, s, p + 1)
    BY <1>2, SpaceMeans DEF ch
  <1>6. /\ ch \in {CR, LF} => Meant(buf, n.ptr, "almost_done", p + 1)
        /\ ch = "H" => Meant(buf, q.ptr, "H", p + 1)
    <2>1. /\ buf[p] \in {CR, LF} => Meant(buf, r.ptr, "almost_done", p + 1)
          /\ buf[p] = "H" => Meant(buf, [r.ptr EXCEPT !["http_protocol"] = p], "H", p + 1)
      BY <1>2, SpacesEndMean
    <2> QED
      BY <1>3, <2>1 DEF ch
  <1>7. ch = LF /\ Done(n) => Leads(n)
    BY <1>2, <1>3, <1>6, LfLeads
  <1>8. Leads(r) \/ Leads(n) \/ Leads(q)
    BY <1>1, <1>4, <1>5, <1>6, <1>7 DEF Leads
  <1> QED
    BY <1>8, LeadsTell

LEMMA AfterUriTells ==
  ASSUME LineInv, ReadInv, TellInv, HostHttp09 \/ CheckUriHttp09 \/ Http09
  PROVE  TellInv'
  <1> DEFINE q == Flag(r, "space_in_uri")
  <1>1. Spaced \cup {"check_uri", "uri"} \subseteq States /\ "space_in_uri" \in Flags
    BY DEF Spaced, States, Flags
  <1>2. PICK s \in Spaced :
          /\ At(s)
          /\ \/ Spaces(s) \/ Fail("INVALID_REQUEST", r)
             \/ s = "check_uri_http_09" /\ ch \notin AfterSpaces /\ GoSame("check_uri", q)
             \/ s = "http_09" /\ ch \notin AfterSpaces /\ GoSame("uri", q)
    BY DEF HostHttp09, CheckUriHttp09, Http09, Invalid, Spaced
  <1>3. Known(buf, r.ptr, s, p) /\ r \in Requests
    BY <1>1, <1>2, KnownHere
  <1>4. q.ptr = r.ptr
    BY <1>1, <1>3, FlagFacts
  <1> HIDE DEF q
  <1>5. /\ ch \notin AfterSpaces /\ s = "check_uri_http_09" => Meant(buf, q.ptr, "check_uri", p)
        /\ ch \notin AfterSpaces /\ s = "http_09" => Meant(buf, q.ptr, "uri", p)
    BY <1>3, <1>4, SpacesEndMean DEF ch
  <1>6. CASE Spaces(s)
    BY <1>2, <1>6, SpacesTell
  <1>7. Spaces(s) \/ Leads(q) \/ Leads(r)
    BY <1>1, <1>2, <1>5 DEF Leads
  <1> QED
    BY <1>2, <1>6, <1>7, LeadsTell

(* The pointers a byte of the URI moves *)
UriMark == {"uri_ext", "args_start", "uri_end"}

LEMMA UriPoints ==
  ASSUME NEW q \in Requests, NEW x \in UriMark, NEW v \in Nat
  PROVE  /\ Agree(q.ptr, Point(q, x, v).ptr, BeforeUri)
         /\ Point(q, x, v) \in Requests /\ Point(q, x, v).ptr[x] = v
         /\ Point(q, x, v).ptr["http_protocol"] = q.ptr["http_protocol"]
         /\ Point(q, x, v).ptr["request_end"] = q.ptr["request_end"]
  <1>1. /\ x \in Pointers /\ x \notin BeforeUri \cup {"http_protocol", "request_end"}
        /\ BeforeUri \cup {"http_protocol", "request_end"} \subseteq Pointers
    BY DEF Pointers, BeforeUri, UriMark
  <1>2. Point(q, x, v) \in Requests /\ Point(q, x, v).ptr = [q.ptr EXCEPT ![x] = v]
    BY <1>1, PointFacts
  <1>3. q.ptr \in Ptrs /\ Point(q, x, v).ptr \in Ptrs
    BY <1>2 DEF Requests
  <1> QED
    BY <1>1, <1>2, <1>3 DEF Agree, Ptrs

LEMMA UriFlags ==
  ASSUME NEW q \in Requests, NEW x \in Flags
  PROVE  /\ Agree(q.ptr, q.ptr, BeforeUri) /\ Agree(q.ptr, Flag(q, x).ptr, BeforeUri)
         /\ Flag(q, x).ptr["http_protocol"] = q.ptr["http_protocol"]
  <1>1. Flag(q, x).ptr = q.ptr /\ q.ptr \in Ptrs
    BY FlagFacts DEF Requests
  <1> QED
    BY <1>1 DEF Agree

LEMMA UriEndsTell ==
  ASSUME LineInv, ReadInv, TellInv, NEW s \in Reading, At(s),
         NEW t \in {"check_uri_http_09", "http_09"}, UriEnds(t)
  PROVE  TellInv'
  <1> DEFINE q == Point(r, "uri_end", p)
             n == Nine(q)
  <1>1. Reading \cup {t, "almost_done"} \subseteq States
    BY DEF Reading, States
  <1>2. /\ Known(buf, r.ptr, s, p) /\ r \in Requests /\ p \in Nat
        /\ r.ptr["request_end"] = 0
    BY <1>1, KnownHere
  <1>3. /\ Agree(r.ptr, q.ptr, BeforeUri) /\ q \in Requests /\ q.ptr["uri_end"] = p
        /\ q.ptr["http_protocol"] = r.ptr["http_protocol"] /\ q.ptr["request_end"] = 0
    <2>1. "uri_end" \in UriMark
      BY DEF UriMark
    <2> QED
      BY <1>2, <2>1, UriPoints
  <1>4. \/ ch = SP /\ Go(t, q)
        \/ ch = CR /\ Go("almost_done", n)
        \/ ch = LF /\ Done(n)
        \/ Fail("INVALID_REQUEST", r)
    BY DEF UriEnds, Ends09, Invalid
  <1> HIDE DEF q
  <1>5. n \in Requests /\ n.ptr = q.ptr
    BY <1>3, NineFacts
  <1> HIDE DEF n
  <1>6. /\ ch = SP => Meant(buf, q.ptr, t, p + 1)
        /\ ch \in {CR, LF} => Meant(buf, n.ptr, "almost_done", p + 1)
    BY <1>2, <1>3, <1>5, UriEndMeans DEF ch
  <1>7. ch = LF /\ Done(n) => Leads(n)
    BY <1>3, <1>5, <1>6, LfLeads
  <1>8. Leads(r) \/ Leads(q) \/ Leads(n)
    BY <1>1, <1>4, <1>6, <1>7 DEF Leads
  <1> QED
    BY <1>8, LeadsTell

(* A byte of the URI, with what the parser notes of it *)
LEMMA UriLeads ==
  ASSUME LineInv, ReadInv, TellInv, NEW s \in Reading, At(s), NEW t \in Reading, NEW q,
         Agree(r.ptr, q.ptr, BeforeUri), q.ptr["http_protocol"] = r.ptr["http_protocol"],
         ch # SP, Go(t, q)
  PROVE  TellInv'
  <1>1. Reading \subseteq States
    BY DEF Reading, States
  <1>2. Known(buf, r.ptr, s, p)
    BY <1>1, KnownHere
  <1>3. Meant(buf, q.ptr, t, p + 1)
    BY <1>2, UriMeans DEF ch
  <1>4. Leads(q)
    BY <1>1, <1>3 DEF Leads
  <1> QED
    BY <1>4, LeadsTell

LEMMA UriTells ==
  ASSUME LineInv, ReadInv, TellInv, AfterSlashInUri \/ CheckUri \/ Uri
  PROVE  TellInv'
  <1>1. Reading \subseteq States /\ SP \in Unusual
    BY DEF Reading, States, Unusual
  <1>2. PICK s \in Reading :
          /\ At(s)
          /\ \/ \E t \in {"check_uri_http_09", "http_09"} : UriEnds(t)
             \/ /\ ch # SP
                /\ \E t \in Reading :
                     \/ Go(t, r)
                     \/ \E x \in {"uri_ext", "args_start"}, v \in {0, p + 1} : Go(t, Point(r, x, v))
                     \/ \E x \in Flags : Go(t, Flag(r, x))
    <2>1. CASE AfterSlashInUri
      BY <1>1, <2>1 DEF AfterSlashInUri, UriQuits, Reading, Flags, SP
    <2>2. CASE CheckUri
      BY <1>1, <2>2 DEF CheckUri, UriQuits, Reading, Flags, SP
    <2>3. CASE Uri
      BY <1>1, <2>3 DEF Uri, Reading, Flags, SP
    <2> QED
      BY <2>1, <2>2, <2>3
  <1>3. r \in Requests /\ {0, p + 1} \subseteq Nat
    BY <1>1, <1>2, KnownHere
  <1>4. CASE \E t \in {"check_uri_http_09", "http_09"} : UriEnds(t)
    BY <1>2, <1>4, UriEndsTell
  <1>5. ASSUME ch # SP, NEW t \in Reading, Go(t, r) PROVE TellInv'
    <2>1. Agree(r.ptr, r.ptr, BeforeUri)
      BY <1>3 DEF Agree, Requests
    <2> QED
      BY <1>2, <1>5, <2>1, UriLeads
  <1>6. ASSUME ch # SP, NEW t \in Reading, NEW x \in {"uri_ext", "args_start"},
               NEW v \in {0, p + 1}, Go(t, Point(r, x, v))
        PROVE  TellInv'
    <2> DEFINE q == Point(r, x, v)
    <2>1. /\ Agree(r.ptr, q.ptr, BeforeUri)
          /\ q.ptr["http_protocol"] = r.ptr["http_protocol"]
      <3>1. r \in Requests /\ v \in Nat /\ x \in UriMark
        BY <1>3 DEF UriMark
      <3> QED
        BY <3>1, UriPoints
    <2> HIDE DEF q
    <2>2. Go(t, q)
      BY <1>6 DEF q
    <2> QED
      BY <1>2, <1>6, <2>1, <2>2, UriLeads
  <1>7. ASSUME ch # SP, NEW t \in Reading, NEW x \in Flags, Go(t, Flag(r, x)) PROVE TellInv'
    BY <1>2, <1>3, <1>7, UriFlags, UriLeads
  <1> QED
    BY <1>2, <1>4, <1>5, <1>6, <1>7

LEMMA DigitsTell ==
  ASSUME LineInv, ReadInv, TellInv,
         FirstMajorDigit \/ MajorDigit \/ FirstMinorDigit \/ MinorDigit \/ SpacesAfterDigit
  PROVE  TellInv'
  <1> DEFINE Digits5 == {"first_major_digit", "major_digit", "first_minor_digit",
                         "minor_digit", "spaces_after_digit"}
  <1>1. Digits5 \subseteq Numbered /\ Numbered \subseteq States /\ Protocol \subseteq States
        /\ Digits5 \cup {"almost_done"} \subseteq Protocol
    BY DEF Numbered, Protocol, States
  <1>2. PICK s \in Digits5 :
          /\ At(s)
          /\ \/ \E t \in Protocol : Go(t, r)
             \/ \E t \in Protocol, v \in {Value(ch), Shifted(r.major, ch)} :
                  ch \in Digit /\ Go(t, [r EXCEPT !.major = v])
             \/ \E t \in Protocol, v \in {Value(ch), Shifted(r.minor, ch)} :
                  ch \in Digit /\ Go(t, [r EXCEPT !.minor = v])
             \/ Done(r) \/ Fail("INVALID_REQUEST", r)
    <2>1. CASE FirstMajorDigit
      BY <1>1, <2>1 DEF FirstMajorDigit, Invalid
    <2>2. CASE MajorDigit
      BY <1>1, <2>2 DEF MajorDigit, Invalid
    <2>3. CASE FirstMinorDigit
      BY <1>1, <2>3 DEF FirstMinorDigit, Invalid
    <2>4. CASE MinorDigit
      BY <1>1, <2>4 DEF MinorDigit, Invalid
    <2>5. CASE SpacesAfterDigit
      BY <1>1, <2>5 DEF SpacesAfterDigit, Invalid
    <2> QED
      BY <2>1, <2>2, <2>3, <2>4, <2>5
  <1>3. /\ Known(buf, r.ptr, s, p) /\ r \in Requests /\ r.ptr["request_end"] = 0
    BY <1>1, <1>2, KnownHere
  <1>4. \A t \in Protocol : Meant(buf, r.ptr, t, p + 1)
    BY <1>1, <1>3, ProtocolMeans
  <1>5. ASSUME NEW t \in Protocol, NEW q, q.ptr = r.ptr, Go(t, q) PROVE TellInv'
    BY <1>1, <1>2, <1>4, <1>5, LeadsTell DEF Leads
  <1>6. ch \in Digit => \A v \in {Value(ch), Shifted(r.major, ch), Shifted(r.minor, ch)} :
          [r EXCEPT !.major = v].ptr = r.ptr /\ [r EXCEPT !.minor = v].ptr = r.ptr
    BY <1>3 DEF Requests
  <1>7. CASE Done(r) \/ Fail("INVALID_REQUEST", r)
    <2>1. Leads(r)
      BY <1>1, <1>3, <1>4, <1>7, LfLeads DEF Leads
    <2> QED
      BY <1>2, <2>1, LeadsTell
  <1> QED
    BY <1>2, <1>5, <1>6, <1>7

LEMMA AlmostDoneTells == ASSUME LineInv, ReadInv, TellInv, AlmostDone PROVE TellInv'
  <1> DEFINE q == Point(r, "request_end", p - 1)
  <1>1. At("almost_done") /\ "almost_done" \in States /\ "request_end" \in Pointers
    BY DEF AlmostDone, States, Pointers
  <1>2. /\ Known(buf, r.ptr, "almost_done", p) /\ r \in Requests /\ p - 1 \in Nat
        /\ p \in Nat \ {0} /\ r.ptr \in Ptrs
    BY <1>1, KnownHere
  <1>3. p - 1 # 0
    BY <1>1, Here, EndsAtCr
  <1>4. q \in Requests /\ q.ptr = [r.ptr EXCEPT !["request_end"] = p - 1]
    BY <1>1, <1>2, PointFacts
  <1>5. (ch = LF /\ Done(q)) \/ Fail("INVALID_REQUEST", q)
    BY DEF AlmostDone, Invalid
  <1> HIDE DEF q
  <1>6. EndOf(q) = p - 1 /\ EndOf(q) + 1 = p
    BY <1>1, <1>2, <1>3, <1>4 DEF EndOf, Ptrs
  <1>7. Agree(r.ptr, q.ptr, Pointers \ {"request_end"})
    BY <1>1, <1>2, <1>4 DEF Agree, Ptrs
  <1>8. Meant(buf, q.ptr, "almost_done", EndOf(q) + 1)
    BY <1>2, <1>6, <1>7, MeantEnd DEF Known
  <1>9. Leads(q)
    BY <1>4, <1>5, <1>8 DEF Leads
  <1> QED
    BY <1>1, <1>9, LeadsTell

LEMMA StepTells == ASSUME LineInv, ReadInv, TellInv, Step PROVE TellInv'
  BY StartTells, MethodTells, SpacesBeforeUriTells, SchemaTells, SlashesTell, HostStartTells,
     HostTells, PortTells, AfterUriTells, UriTells, HttpTells, DigitsTell, AlmostDoneTells,
     Zenon
  DEF Step

-----------------------------------------------------------------------------
(* Around the calls *)

LEMMA TellStarts == Init => TellInv
  <1> SUFFICES ASSUME Init PROVE TellInv
    OBVIOUS
  <1> DEFINE f == r.ptr
  <1>1. /\ r.state = "start" /\ f \in Ptrs /\ \A x \in Pointers : f[x] = 0
    BY DEF Init, NewRequest, Ptrs
  <1>2. ~ busy /\ ~ Parsed /\ pos = 1 /\ buf = <<>>
    BY DEF Init, Parsed
  <1> HIDE DEF f
  <1>3. /\ f["http_protocol"] = 0 /\ f["schema_start"] = 0 /\ f["host_start"] = 0
        /\ f["port_end"] = 0
    BY <1>1 DEF Pointers
  <1>4. Named(buf, f, "start", 1) /\ Aimed(buf, f, "start", 1)
    BY <1>3 DEF Named, Aimed, Absolute, Ahead, InSchema, InAuthority
  <1>5. Schemed(buf, f, "start", 1) /\ Hosted(buf, f, "start", 1)
    BY <1>3 DEF Schemed, Hosted, Ahead, InSchema, InAuthority
  <1>6. /\ Pathed(buf, f, "start", 1) /\ Protocoled(buf, f, "start", 1)
        /\ Cut(buf, f, "start", 1)
    BY <1>3 DEF Pathed, Protocoled, Cut, Ahead, InSchema, InAuthority, Reading, AfterUri,
       Spaced, Numbered, Protocol
  <1> QED
    BY <1>1, <1>2, <1>4, <1>5, <1>6 DEF TellInv, Meant, f

LEMMA ReceiveTells == ASSUME LineInv, TellInv, Receive PROVE TellInv'
  <1>1. PICK b \in Sends(client, Len(buf)) : buf' = Append(buf, b)
    BY DEF Receive
  <1>2. b \in Char
    BY <1>1, SentIsChar DEF LineInv, Typed
  <1>3. /\ r.ptr \in Ptrs /\ pos \in 1 .. Len(buf) + 1 /\ buf \in Seq(Char)
        /\ r.state \in States
    BY DEF LineInv, Typed, Requests
  <1>4. Meant(buf, r.ptr, r.state, pos) /\ ~ busy /\ Pending
    BY DEF TellInv, Receive
  <1>5. /\ buf' \in Seq(Char) /\ Len(buf) <= Len(buf')
        /\ \A k \in 1 .. Len(buf) : buf'[k] = buf[k]
    BY <1>1, <1>2, <1>3
  <1>6. r.state \in Ahead \cup InSchema \cup InAuthority \cup Reading \cup AfterUri
    BY <1>3, StatesAre DEF Ahead
  <1>7. Meant(buf', r.ptr, r.state, pos)
    BY <1>3, <1>4, <1>5, <1>6, MeantLonger
  <1>8. UNCHANGED <<pos, busy, p, state, r, rc>>
    BY DEF Receive
  <1> QED
    BY <1>4, <1>7, <1>8 DEF TellInv, Parsed, Pending

LEMMA EnterTells == ASSUME LineInv, TellInv, Enter PROVE TellInv'
  <1>1. Meant(buf, r.ptr, r.state, pos) /\ Pending
    BY DEF TellInv, Enter
  <1>2. /\ busy' = TRUE /\ p' = pos /\ state' = r.state
        /\ UNCHANGED <<buf, pos, r, rc>>
    BY DEF Enter, ioVars
  <1> QED
    BY <1>1, <1>2 DEF TellInv, Parsed, Pending

LEMMA AgainTells == ASSUME LineInv, TellInv, Again PROVE TellInv'
  <1>1. Meant(buf, r.ptr, state, p)
    BY DEF TellInv, Again
  <1>2. /\ pos' = p /\ r' = [r EXCEPT !.state = state] /\ rc' = "AGAIN" /\ busy' = FALSE
        /\ buf' = buf
    BY DEF Again, ioVars
  <1>3. r'.ptr = r.ptr /\ r'.state = state
    BY <1>2 DEF LineInv, Typed, Requests
  <1> QED
    BY <1>1, <1>2, <1>3 DEF TellInv, Parsed, Pending

LEMMA RestTells == ASSUME TellInv, UNCHANGED <<buf, pos, busy, p, state, r, rc>> PROVE TellInv'
  BY DEF TellInv, Parsed, Pending

LEMMA NextTells == ASSUME LineInv, ReadInv, TellInv, [Next]_vars PROVE TellInv'
  <1>1. CASE Step
    BY <1>1, StepTells
  <1>2. CASE Receive
    BY <1>2, ReceiveTells
  <1>3. CASE Enter
    BY <1>3, EnterTells
  <1>4. CASE Again
    BY <1>4, AgainTells
  <1>5. CASE RefuseLine \/ CopyFails \/ ProcessLine
    BY <1>5, RestTells DEF RefuseLine, CopyFails, ProcessLine, Answer
  <1>6. CASE UNCHANGED vars
    BY <1>6, RestTells DEF vars, ioVars
  <1> QED
    BY <1>1, <1>2, <1>3, <1>4, <1>5, <1>6 DEF Next

LEMMA LeastExists ==
  ASSUME NEW T \in SUBSET Nat, T # {}
  PROVE  \E m \in T : \A k \in T : m <= k
  <1>1. PICK m \in T : \A k \in T : <<k, m>> \notin OpToRel(<, Nat)
    BY WFMin, NatLessThanWellFounded, Zenon
  <1>2. \A k \in T : ~ (k < m)
    BY <1>1, Zenon DEF OpToRel
  <1> QED
    BY <1>2

LEMMA Divides ==
  ASSUME NEW M \in Nat \ {0}, NEW a \in Nat
  PROVE  a = M * (a \div M) + (a % M) /\ a % M \in 0 .. M - 1 /\ a \div M \in Nat
  OBVIOUS

LEMMA Remainder ==
  ASSUME NEW M \in Nat \ {0}, NEW k \in Nat, NEW b \in Nat
  PROVE  (M * k + b) % M = b % M
  <1> DEFINE x == M * k + b
             q == x \div M
             e == b \div M
  <1>1. M * k \in Nat /\ x \in Nat
    OBVIOUS
  <1>2. x = M * q + (x % M) /\ x % M \in 0 .. M - 1 /\ q \in Nat
    BY <1>1
  <1>3. b = M * e + (b % M) /\ b % M \in 0 .. M - 1 /\ e \in Nat
    OBVIOUS
  <1>4. M * (q - (k + e)) = (b % M) - (x % M)
    <2>1. M * (q - (k + e)) = M * q - M * k - M * e
      BY <1>2, <1>3
    <2> QED
      BY <1>2, <1>3, <2>1
  <1>5. q - (k + e) = 0
    <2> DEFINE n == q - (k + e)
    <2>1. n \in Int /\ M * n < M /\ M * n > -M
      BY <1>2, <1>3, <1>4
    <2> HIDE DEF n
    <2>2. n >= 1 => M * n >= M
      BY <2>1
    <2>3. n <= -1 => M * n <= -M
      BY <2>1
    <2>4. n = 0
      BY <2>1, <2>2, <2>3
    <2> QED
      BY <2>4 DEF n
  <1> QED
    BY <1>2, <1>3, <1>4, <1>5

LEMMA ShiftModulo ==
  ASSUME NEW M \in Nat \ {0}, NEW a \in Nat, NEW d \in Nat
  PROVE  ((a % M) * 10 + d) % M = (a * 10 + d) % M
  <1> DEFINE q == a \div M
             e == a % M
  <1>1. a = M * q + e /\ e \in Nat /\ q \in Nat
    OBVIOUS
  <1>2. a * 10 + d = M * (q * 10) + (e * 10 + d)
    <2> HIDE DEF q, e
    <2> QED
      BY <1>1
  <1>3. q * 10 \in Nat /\ e * 10 + d \in Nat
    BY <1>1
  <1> HIDE DEF q, e
  <1>4. (M * (q * 10) + (e * 10 + d)) % M = (e * 10 + d) % M
    BY <1>3, Remainder
  <1> QED
    BY <1>2, <1>4 DEF e

(* g[k] is the value of the digits of u from i to k. *)
Sums(u, i, j, g) ==
  /\ g \in [i - 1 .. j -> Nat]
  /\ g[i - 1] = 0
  /\ \A k \in i .. j : g[k] = g[k - 1] * 10 + Value(u[k])

LEMMA NumeralIs ==
  ASSUME NEW i \in Nat \ {0}, NEW j \in Nat, i <= j, NEW g, Sums(buf, i, j, g)
  PROVE  Numeral(i, j) = g[j] % WordMod
  <1> DEFINE D == i - 1 .. j
             Is(f) == f = [k \in D |-> IF k = i - 1 THEN 0
                                       ELSE f[k - 1] * 10 + Value(buf[k])]
             f == CHOOSE x : Is(x)
  <1>1. g \in [D -> Nat] /\ g[i - 1] = 0
        /\ \A k \in D : k # i - 1 => g[k] = g[k - 1] * 10 + Value(buf[k])
    BY DEF Sums
  <1>2. Is(g)
    BY <1>1
  <1>3. Is(f)
    BY <1>2
  <1> DEFINE T == {k \in D : f[k] # g[k]}
  <1>4. \A k \in D : f[k] = IF k = i - 1 THEN 0 ELSE f[k - 1] * 10 + Value(buf[k])
    BY <1>3
  <1> HIDE DEF f
  <1>5. T = {}
    <2> SUFFICES ASSUME T # {} PROVE FALSE
      OBVIOUS
    <2>1. T \in SUBSET Nat
      OBVIOUS
    <2>2. PICK m \in T : \A k \in T : m <= k
      BY <2>1, LeastExists
    <2>3. m \in D /\ f[m] # g[m]
      BY <2>2
    <2>4. CASE m = i - 1
      BY <1>1, <1>4, <2>3, <2>4
    <2>5. CASE m # i - 1
      <3>1. m - 1 \in D /\ m - 1 < m
        BY <2>3, <2>5
      <3>2. f[m - 1] = g[m - 1]
        BY <2>2, <3>1
      <3> QED
        BY <1>1, <1>4, <2>3, <2>5, <3>2
    <2> QED
      BY <2>4, <2>5
  <1>6. j \in D
    OBVIOUS
  <1>7. f[j] = g[j]
    BY <1>5, <1>6
  <1> QED
    BY <1>7 DEF Numeral, f

(* v is the value of the digits of u from i to j, in a field of 16 bits. *)
Digits(u, i, j, v) == \E g : Sums(u, i, j, g) /\ v = g[j] % WordMod

LEMMA DigitsOne ==
  ASSUME NEW u, NEW i \in Nat \ {0}, u[i] \in Digit
  PROVE  Digits(u, i, i, Value(u[i]))
  <1> DEFINE g == [k \in i - 1 .. i |-> IF k = i THEN Value(u[i]) ELSE 0]
  <1>1. Value(u[i]) \in 0 .. 9
    BY ValueFacts
  <1>2. Sums(u, i, i, g)
    BY <1>1 DEF Sums
  <1>3. g[i] = Value(u[i]) /\ Value(u[i]) % WordMod = Value(u[i])
    BY <1>1, BufAssumption
  <1> HIDE DEF g
  <1> QED
    BY <1>2, <1>3 DEF Digits

LEMMA DigitsMore ==
  ASSUME NEW u, NEW i \in Nat \ {0}, NEW j \in Nat, i <= j, NEW v, Digits(u, i, j, v),
         u[j + 1] \in Digit
  PROVE  Digits(u, i, j + 1, Shifted(v, u[j + 1]))
  <1>1. PICK g : Sums(u, i, j, g) /\ v = g[j] % WordMod
    BY DEF Digits
  <1> DEFINE d == Value(u[j + 1])
             n == g[j] * 10 + d
             h == [k \in i - 1 .. j + 1 |-> IF k = j + 1 THEN n ELSE g[k]]
  <1>2. d \in Nat
    BY ValueFacts
  <1>3. g[j] \in Nat /\ n \in Nat
    BY <1>1, <1>2 DEF Sums
  <1> HIDE DEF d
  <1>4. Sums(u, i, j + 1, h)
    <2>1. g \in [i - 1 .. j -> Nat] /\ g[i - 1] = 0
          /\ \A k \in i .. j : g[k] = g[k - 1] * 10 + Value(u[k])
      BY <1>1 DEF Sums
    <2>2. n = g[j] * 10 + Value(u[j + 1])
      BY DEF d
    <2> HIDE DEF n
    <2>3. h \in [i - 1 .. j + 1 -> Nat] /\ h[i - 1] = 0
      BY <1>3, <2>1
    <2>4. ASSUME NEW k \in i .. j + 1 PROVE h[k] = h[k - 1] * 10 + Value(u[k])
      <3>1. CASE k = j + 1
        <4>1. h[k] = n /\ h[k - 1] = g[j]
          BY <3>1
        <4> QED
          BY <2>2, <3>1, <4>1
      <3>2. CASE k # j + 1
        <4>1. k \in i .. j /\ h[k] = g[k] /\ h[k - 1] = g[k - 1]
          BY <3>2
        <4> QED
          BY <2>1, <4>1
      <3> QED
        BY <3>1, <3>2
    <2> QED
      BY <2>3, <2>4 DEF Sums
  <1>5. h[j + 1] = n
    OBVIOUS
  <1>6. Shifted(v, u[j + 1]) = n % WordMod
    <2>1. WordMod \in Nat \ {0}
      BY BufAssumption
    <2>2. ((g[j] % WordMod) * 10 + d) % WordMod = (g[j] * 10 + d) % WordMod
      BY <1>2, <1>3, <2>1, ShiftModulo
    <2> QED
      BY <1>1, <2>2 DEF Shifted, d
  <1> HIDE DEF h, n
  <1> QED
    BY <1>4, <1>5, <1>6 DEF Digits

LEMMA DigitsAlike ==
  ASSUME NEW u, NEW w, NEW c, Alike(u, w, c), NEW i \in Nat \ {0}, NEW j \in Nat, j < c,
         NEW v, Digits(u, i, j, v)
  PROVE  Digits(w, i, j, v)
  <1>1. PICK g : Sums(u, i, j, g) /\ v = g[j] % WordMod
    BY DEF Digits
  <1>2. \A k \in i .. j : w[k] = u[k]
    BY DEF Alike
  <1>3. Sums(w, i, j, g)
    BY <1>1, <1>2 DEF Sums
  <1> QED
    BY <1>1, <1>3 DEF Digits

-----------------------------------------------------------------------------
(* The version, when a protocol begins at h and v and w are the two fields *)

AfterDigits == {SP, CR, LF}
Letters == {"H", "HT", "HTT", "HTTP", "first_major_digit"}
Minor == {"first_minor_digit", "minor_digit", "spaces_after_digit", "almost_done"}

Spelled(u, h, s, c) ==
  /\ s = "H" => c = h + 1
  /\ s = "HT" => c = h + 2
  /\ s = "HTT" => c = h + 3
  /\ s = "HTTP" => c = h + 4
  /\ s = "first_major_digit" => c = h + 5
  /\ s = "major_digit" => h + 5 < c
  /\ s \in Letters \cup {"major_digit"} => Free(u, h, c - 1, {"."})

(* Its dot is at d, and the byte after its digits at e. *)
Dotted(u, h, v, d) == h + 5 < d /\ First(u, h, {"."}, d) /\ Digits(u, h + 5, d - 1, v)
Written(u, h, v, w, d, e) ==
  /\ Dotted(u, h, v, d) /\ d + 1 < e /\ First(u, d, AfterDigits, e)
  /\ Digits(u, d + 1, e - 1, w)

Counted(u, h, v, w, s, c) ==
  /\ s \notin Minor \cup {"major_digit"} => v = 0 /\ w = 0
  /\ s = "major_digit" => Digits(u, h + 5, c - 1, v) /\ w = 0
  /\ s = "first_minor_digit" => Dotted(u, h, v, c - 1) /\ w = 0
  /\ s = "minor_digit" =>
       \E d \in Nat : /\ Dotted(u, h, v, d) /\ d + 1 < c
                      /\ Free(u, d, c - 1, AfterDigits) /\ Digits(u, d + 1, c - 1, w)
  /\ s = "spaces_after_digit" \/ (s = "almost_done" /\ h # 0) =>
       \E d \in Nat, e \in Nat : Written(u, h, v, w, d, e) /\ e < c
  /\ s = "almost_done" /\ h = 0 => v = 0 /\ w = 9

Versioned(u, h, v, w, s, c) == Spelled(u, h, s, c) /\ Counted(u, h, v, w, s, c)

(* Before the protocol nothing is said of its bytes. *)
LEMMA NoVersion ==
  ASSUME NEW u, NEW h, NEW c, NEW s, s \notin Protocol
  PROVE  Versioned(u, h, 0, 0, s, c)
  BY DEF Versioned, Spelled, Counted, Letters, Minor, Protocol

LEMMA VersionNine ==
  ASSUME NEW u, NEW c
  PROVE  Versioned(u, 0, 0, 9, "almost_done", c)
  BY DEF Versioned, Spelled, Counted, Letters, Minor

LEMMA VersionBegins ==
  ASSUME NEW u, NEW c \in Nat \ {0}, u[c] = "H"
  PROVE  Versioned(u, c, 0, 0, "H", c + 1)
  BY DEF Versioned, Spelled, Counted, Letters, Minor, Free

LEMMA VersionLetters ==
  ASSUME NEW u, NEW h \in Nat, NEW c \in Nat \ {0}, NEW v, NEW w, NEW s, NEW t,
         <<s, t>> \in {<<"H", "HT">>, <<"HT", "HTT">>, <<"HTT", "HTTP">>,
                       <<"HTTP", "first_major_digit">>},
         u[c] # ".", Versioned(u, h, v, w, s, c)
  PROVE  Versioned(u, h, v, w, t, c + 1)
  <1>1. s \in Letters /\ t \in Letters /\ Letters \cap (Minor \cup {"major_digit"}) = {}
    BY DEF Letters, Minor
  <1>2. v = 0 /\ w = 0 /\ Free(u, h, c - 1, {"."})
    BY <1>1 DEF Versioned, Spelled, Counted
  <1>3. Free(u, h, (c + 1) - 1, {"."})
    BY <1>2, FreeMore
  <1>4. Spelled(u, h, t, c + 1)
    BY <1>1, <1>3 DEF Versioned, Spelled
  <1>5. Counted(u, h, v, w, t, c + 1)
    BY <1>1, <1>2 DEF Counted, Letters, Minor
  <1> QED
    BY <1>4, <1>5 DEF Versioned

LEMMA VersionMajor ==
  ASSUME NEW u, NEW h \in Nat, NEW c \in Nat \ {0}, NEW v, NEW w, u[c] \in Digit
  PROVE  /\ Versioned(u, h, v, w, "first_major_digit", c) =>
              Versioned(u, h, Value(u[c]), w, "major_digit", c + 1)
         /\ Versioned(u, h, v, w, "major_digit", c) =>
              Versioned(u, h, Shifted(v, u[c]), w, "major_digit", c + 1)
  <1>1. u[c] # "." /\ h + 5 \in Nat \ {0}
    BY DEF Digit
  <1>2. ASSUME Versioned(u, h, v, w, "first_major_digit", c)
        PROVE  Versioned(u, h, Value(u[c]), w, "major_digit", c + 1)
    <2>1. c = h + 5 /\ Free(u, h, c - 1, {"."}) /\ w = 0
      BY <1>2 DEF Versioned, Spelled, Counted, Letters, Minor
    <2>2. Free(u, h, (c + 1) - 1, {"."})
      BY <1>1, <2>1, FreeMore
    <2>3. Digits(u, h + 5, (c + 1) - 1, Value(u[c]))
      BY <1>1, <2>1, DigitsOne
    <2> QED
      BY <2>1, <2>2, <2>3 DEF Versioned, Spelled, Counted, Letters, Minor
  <1>3. ASSUME Versioned(u, h, v, w, "major_digit", c)
        PROVE  Versioned(u, h, Shifted(v, u[c]), w, "major_digit", c + 1)
    <2>1. /\ h + 5 < c /\ Free(u, h, c - 1, {"."}) /\ w = 0
          /\ Digits(u, h + 5, c - 1, v)
      BY <1>3 DEF Versioned, Spelled, Counted, Letters, Minor
    <2>2. Free(u, h, (c + 1) - 1, {"."})
      BY <1>1, <2>1, FreeMore
    <2>3. Digits(u, h + 5, (c + 1) - 1, Shifted(v, u[c]))
      <3>1. c - 1 \in Nat /\ h + 5 <= c - 1 /\ (c - 1) + 1 = c /\ (c + 1) - 1 = c
        BY <2>1
      <3>2. Digits(u, h + 5, (c - 1) + 1, Shifted(v, u[(c - 1) + 1]))
        BY <1>1, <2>1, <3>1, DigitsMore
      <3> QED
        BY <3>1, <3>2
    <2> QED
      BY <2>1, <2>2, <2>3 DEF Versioned, Spelled, Counted, Letters, Minor
  <1> QED
    BY <1>2, <1>3

LEMMA VersionDot ==
  ASSUME NEW u, NEW h \in Nat, NEW c \in Nat \ {0}, NEW v, NEW w, u[c] = ".",
         Versioned(u, h, v, w, "major_digit", c)
  PROVE  Versioned(u, h, v, w, "first_minor_digit", c + 1)
  <1>1. /\ h + 5 < c /\ Free(u, h, c - 1, {"."}) /\ w = 0
        /\ Digits(u, h + 5, c - 1, v)
    BY DEF Versioned, Spelled, Counted, Letters, Minor
  <1>2. Dotted(u, h, v, (c + 1) - 1)
    <2>1. (c + 1) - 1 = c
      OBVIOUS
    <2>2. First(u, h, {"."}, c)
      BY <1>1 DEF First
    <2> QED
      BY <1>1, <2>1, <2>2 DEF Dotted
  <1> QED
    BY <1>1, <1>2 DEF Versioned, Spelled, Counted, Letters, Minor

LEMMA VersionMinor ==
  ASSUME NEW u, NEW h \in Nat, NEW c \in Nat \ {0}, NEW v, NEW w, u[c] \in Digit
  PROVE  /\ Versioned(u, h, v, w, "first_minor_digit", c) =>
              Versioned(u, h, v, Value(u[c]), "minor_digit", c + 1)
         /\ Versioned(u, h, v, w, "minor_digit", c) =>
              Versioned(u, h, v, Shifted(w, u[c]), "minor_digit", c + 1)
  <1>1. u[c] \notin AfterDigits /\ "." \notin AfterDigits
    BY DEF Digit, AfterDigits, SP, CR, LF
  <1>2. ASSUME Versioned(u, h, v, w, "first_minor_digit", c)
        PROVE  Versioned(u, h, v, Value(u[c]), "minor_digit", c + 1)
    <2>1. Dotted(u, h, v, c - 1) /\ c - 1 \in Nat
      BY <1>2 DEF Versioned, Counted, Minor
    <2>2. u[c - 1] = "."
      BY <2>1 DEF Dotted, First
    <2>3. Free(u, c - 1, (c + 1) - 1, AfterDigits)
      BY <1>1, <2>2 DEF Free
    <2>4. Digits(u, (c - 1) + 1, (c + 1) - 1, Value(u[c]))
      <3>1. (c - 1) + 1 = c /\ (c + 1) - 1 = c
        OBVIOUS
      <3> QED
        BY <3>1, DigitsOne
    <2>5. (c - 1) + 1 < c + 1
      OBVIOUS
    <2> QED
      BY <2>1, <2>3, <2>4, <2>5 DEF Versioned, Spelled, Counted, Letters, Minor
  <1>3. ASSUME Versioned(u, h, v, w, "minor_digit", c)
        PROVE  Versioned(u, h, v, Shifted(w, u[c]), "minor_digit", c + 1)
    <2>1. PICK d \in Nat : /\ Dotted(u, h, v, d) /\ d + 1 < c
                           /\ Free(u, d, c - 1, AfterDigits) /\ Digits(u, d + 1, c - 1, w)
      BY <1>3 DEF Versioned, Counted
    <2>2. Free(u, d, (c + 1) - 1, AfterDigits)
      BY <1>1, <2>1, FreeMore
    <2>3. Digits(u, d + 1, (c + 1) - 1, Shifted(w, u[c]))
      <3>1. /\ d + 1 \in Nat \ {0} /\ c - 1 \in Nat /\ d + 1 <= c - 1
            /\ (c - 1) + 1 = c /\ (c + 1) - 1 = c
        BY <2>1
      <3>2. Digits(u, d + 1, (c - 1) + 1, Shifted(w, u[(c - 1) + 1]))
        BY <2>1, <3>1, DigitsMore
      <3> QED
        BY <3>1, <3>2
    <2>4. d + 1 < c + 1
      BY <2>1
    <2> QED
      BY <2>1, <2>2, <2>3, <2>4 DEF Versioned, Spelled, Counted, Letters, Minor
  <1> QED
    BY <1>2, <1>3

(* The digits end, and after them only the state changes. *)
LEMMA VersionEnds ==
  ASSUME NEW u, NEW h \in Nat \ {0}, NEW c \in Nat \ {0}, NEW v, NEW w,
         NEW t \in {"spaces_after_digit", "almost_done"}
  PROVE  /\ Versioned(u, h, v, w, "minor_digit", c) /\ u[c] \in AfterDigits =>
              Versioned(u, h, v, w, t, c + 1)
         /\ Versioned(u, h, v, w, "spaces_after_digit", c) =>
              Versioned(u, h, v, w, t, c + 1)
  <1>1. ASSUME NEW d \in Nat, NEW e \in Nat, Written(u, h, v, w, d, e), e < c + 1
        PROVE  Versioned(u, h, v, w, t, c + 1)
    BY <1>1 DEF Versioned, Spelled, Counted, Letters, Minor
  <1>2. ASSUME Versioned(u, h, v, w, "minor_digit", c), u[c] \in AfterDigits
        PROVE  \E d \in Nat, e \in Nat : Written(u, h, v, w, d, e) /\ e < c + 1
    <2>1. PICK d \in Nat : /\ Dotted(u, h, v, d) /\ d + 1 < c
                           /\ Free(u, d, c - 1, AfterDigits) /\ Digits(u, d + 1, c - 1, w)
      BY <1>2 DEF Versioned, Counted
    <2>2. First(u, d, AfterDigits, c)
      BY <1>2, <2>1 DEF First
    <2> QED
      BY <2>1, <2>2 DEF Written
  <1>3. ASSUME Versioned(u, h, v, w, "spaces_after_digit", c)
        PROVE  \E d \in Nat, e \in Nat : Written(u, h, v, w, d, e) /\ e < c + 1
    <2>1. PICK d \in Nat, e \in Nat : Written(u, h, v, w, d, e) /\ e < c
      BY <1>3 DEF Versioned, Counted
    <2> QED
      BY <2>1
  <1> QED
    BY <1>1, <1>2, <1>3

(* Bytes that come later do not change it. *)
LEMMA VersionLonger ==
  ASSUME NEW u, NEW x, NEW c, Alike(u, x, c), NEW h \in Nat \ {0}, NEW v, NEW w, NEW s,
         Versioned(u, h, v, w, s, c)
  PROVE  Versioned(x, h, v, w, s, c)
  <1>1. c \in Nat \ {0} /\ \A k \in 1 .. c - 1 : x[k] = u[k]
    BY DEF Alike
  <1>2. Spelled(x, h, s, c)
    BY <1>1 DEF Versioned, Spelled, Free
  <1>3. ASSUME NEW d \in Nat, d < c, Dotted(u, h, v, d) PROVE Dotted(x, h, v, d)
    <2>1. First(x, h, {"."}, d)
      BY <1>3, FirstAlike DEF Dotted
    <2>2. h + 5 \in Nat \ {0} /\ d - 1 \in Nat /\ d - 1 < c
      BY <1>1, <1>3 DEF Dotted
    <2>3. Digits(x, h + 5, d - 1, v)
      BY <1>3, <2>2, DigitsAlike DEF Dotted
    <2> QED
      BY <1>3, <2>1, <2>3 DEF Dotted
  <1>4. s = "major_digit" => Digits(x, h + 5, c - 1, v)
    <2>1. h + 5 \in Nat \ {0} /\ c - 1 \in Nat /\ c - 1 < c
      BY <1>1
    <2>2. s = "major_digit" => Digits(u, h + 5, c - 1, v)
      BY DEF Versioned, Counted
    <2> QED
      BY <2>1, <2>2, DigitsAlike
  <1>5. s = "first_minor_digit" => Dotted(x, h, v, c - 1)
    <2>1. c - 1 \in Nat /\ c - 1 < c
      BY <1>1
    <2> QED
      BY <1>3, <2>1 DEF Versioned, Counted
  <1>6. s = "minor_digit" =>
          \E d \in Nat : /\ Dotted(x, h, v, d) /\ d + 1 < c
                         /\ Free(x, d, c - 1, AfterDigits) /\ Digits(x, d + 1, c - 1, w)
    <2> SUFFICES ASSUME s = "minor_digit"
                 PROVE  \E d \in Nat : /\ Dotted(x, h, v, d) /\ d + 1 < c
                                       /\ Free(x, d, c - 1, AfterDigits)
                                       /\ Digits(x, d + 1, c - 1, w)
      OBVIOUS
    <2>1. PICK d \in Nat : /\ Dotted(u, h, v, d) /\ d + 1 < c
                           /\ Free(u, d, c - 1, AfterDigits) /\ Digits(u, d + 1, c - 1, w)
      BY DEF Versioned, Counted
    <2>2. /\ d < c /\ d >= 1 /\ d + 1 \in Nat \ {0} /\ c - 1 \in Nat /\ c - 1 < c
      BY <1>1, <2>1 DEF Dotted
    <2>3. Free(x, d, c - 1, AfterDigits)
      BY <1>1, <2>1, <2>2 DEF Free
    <2>4. Digits(x, d + 1, c - 1, w)
      BY <2>1, <2>2, DigitsAlike
    <2> QED
      BY <1>3, <2>1, <2>2, <2>3, <2>4
  <1>7. ASSUME NEW d \in Nat, NEW e \in Nat, e < c, Written(u, h, v, w, d, e)
        PROVE  Written(x, h, v, w, d, e)
    <2>1. Dotted(u, h, v, d) /\ d + 1 < e /\ First(u, d, AfterDigits, e)
          /\ Digits(u, d + 1, e - 1, w)
      BY <1>7 DEF Written
    <2>2. /\ d < c /\ d >= 1 /\ d + 1 \in Nat \ {0} /\ e - 1 \in Nat /\ e - 1 < c
      BY <1>1, <1>7, <2>1 DEF Dotted
    <2>3. First(x, d, AfterDigits, e)
      BY <1>7, <2>1, <2>2, FirstAlike
    <2>4. Digits(x, d + 1, e - 1, w)
      BY <2>1, <2>2, DigitsAlike
    <2> QED
      BY <1>3, <2>1, <2>2, <2>3, <2>4 DEF Written
  <1>8. s = "spaces_after_digit" \/ (s = "almost_done" /\ h # 0) =>
          \E d \in Nat, e \in Nat : Written(x, h, v, w, d, e) /\ e < c
    BY <1>7 DEF Versioned, Counted
  <1>9. Counted(x, h, v, w, s, c)
    BY <1>4, <1>5, <1>6, <1>8 DEF Versioned, Counted
  <1> QED
    BY <1>2, <1>9 DEF Versioned

-----------------------------------------------------------------------------
(* What the parser notes about a URI that begins at a *)

(* The bytes before i are a "/" and then only plus signs. *)
AfterSlash(u, a, i) ==
  \E j \in a .. i - 1 : u[j] = "/" /\ All(u, j + 1, i - 1, {"+"})

Quits(u, a, i) ==
  u[i] \in {"?", "%", "#"} \/ (u[i] \in {".", "/"} /\ AfterSlash(u, a, i))

(* x begins the extension of the part of the URI before k, or there is none. *)
Ext(u, a, k, x) ==
  IF x = 0 THEN \A i \in a + 1 .. k - 1 :
                  u[i] = "." => \E j \in i .. k - 1 : u[j] = "/"
  ELSE x - 1 \in a + 1 .. k - 1 /\ u[x - 1] = "." /\ Free(u, x, k - 1, {".", "/"})

(* Of the bytes before e, it has quit with the one at k, or with none. *)
Noted(u, f, g, a, k, e) ==
  /\ k \in a + 1 .. e
  /\ k < e => Quits(u, a, k)
  /\ \A i \in a + 1 .. k - 1 : ~ Quits(u, a, i)
  /\ g["plus_in_uri"] <=> \E i \in a .. k - 1 : u[i] = "+"
  /\ g["quoted_uri"] <=> k < e /\ u[k] = "%"
  /\ g["complex_uri"] <=>
       k < e /\ (u[k] \in {".", "/", "#"} \/ \E i \in k .. e - 1 : u[i] = "#")
  /\ f["args_start"] = IF k < e /\ u[k] = "?" THEN k + 1 ELSE 0
  /\ Ext(u, a, k, f["uri_ext"])

HasSpace(u, a, e) == \E i \in a .. e - 1 : u[i] = SP

Marked(u, f, g, s, c) ==
  LET a == f["uri_start"]
      e == f["uri_end"]
  IN
  /\ s \notin Reading \cup AfterUri =>
       (\A x \in Flags : ~ g[x]) /\ f["args_start"] = 0 /\ f["uri_ext"] = 0
  /\ s \in Reading => (g["space_in_uri"] <=> HasSpace(u, a, c))
  /\ s \in {"after_slash_in_uri", "check_uri"} =>
       Noted(u, f, g, a, c, c) /\ (s = "after_slash_in_uri" <=> AfterSlash(u, a, c))
  /\ s = "uri" => \E k \in a + 1 .. c - 1 : Noted(u, f, g, a, k, c)
  /\ s \in AfterUri => (g["space_in_uri"] <=> HasSpace(u, a, e))
  /\ s = "check_uri_http_09" => Noted(u, f, g, a, e, e)
  /\ s = "http_09" => \E k \in a + 1 .. e - 1 : Noted(u, f, g, a, k, e)
  /\ s \in Protocol \cup {"host_http_09"} => \E k \in a + 1 .. e : Noted(u, f, g, a, k, e)

-----------------------------------------------------------------------------
(* How a byte at c changes what is noted *)

LEMMA SlashMore ==
  ASSUME NEW u, NEW a \in Nat, NEW c \in Nat, a <= c
  PROVE  AfterSlash(u, a, c + 1) <=> u[c] = "/" \/ (u[c] = "+" /\ AfterSlash(u, a, c))
  <1>1. ASSUME AfterSlash(u, a, c + 1), u[c] # "/" PROVE u[c] = "+" /\ AfterSlash(u, a, c)
    <2>1. PICK j \in a .. (c + 1) - 1 : u[j] = "/" /\ All(u, j + 1, (c + 1) - 1, {"+"})
      BY <1>1 DEF AfterSlash
    <2>2. j \in a .. c - 1
      BY <1>1, <2>1
    <2>3. u[c] = "+" /\ All(u, j + 1, c - 1, {"+"})
      BY <2>1, <2>2 DEF All
    <2> QED
      BY <2>1, <2>2, <2>3 DEF AfterSlash
  <1>2. ASSUME u[c] = "/" PROVE AfterSlash(u, a, c + 1)
    <2>1. c \in a .. (c + 1) - 1 /\ All(u, c + 1, (c + 1) - 1, {"+"})
      BY DEF All
    <2> QED
      BY <1>2, <2>1 DEF AfterSlash
  <1>3. ASSUME u[c] = "+", AfterSlash(u, a, c) PROVE AfterSlash(u, a, c + 1)
    <2>1. PICK j \in a .. c - 1 : u[j] = "/" /\ All(u, j + 1, c - 1, {"+"})
      BY <1>3 DEF AfterSlash
    <2>2. j \in a .. (c + 1) - 1 /\ All(u, j + 1, (c + 1) - 1, {"+"})
      BY <1>3, <2>1 DEF All
    <2> QED
      BY <2>1, <2>2 DEF AfterSlash
  <1> QED
    BY <1>1, <1>2, <1>3

LEMMA SpaceMore ==
  ASSUME NEW u, NEW a \in Nat, NEW c \in Nat, a <= c
  PROVE  HasSpace(u, a, c + 1) <=> HasSpace(u, a, c) \/ u[c] = SP
  BY DEF HasSpace

(* The pointers and flags that are noted *)
Marks(f, g, f2, g2) ==
  /\ f2["args_start"] = f["args_start"] /\ f2["uri_ext"] = f["uri_ext"]
  /\ g2["plus_in_uri"] = g["plus_in_uri"] /\ g2["quoted_uri"] = g["quoted_uri"]
  /\ g2["complex_uri"] = g["complex_uri"]

LEMMA NotedSame ==
  ASSUME NEW u, NEW f, NEW g, NEW f2, NEW g2, NEW a, NEW k, NEW e, Marks(f, g, f2, g2),
         Noted(u, f, g, a, k, e)
  PROVE  Noted(u, f2, g2, a, k, e)
  BY DEF Noted, Marks

(* The URI begins, with its "/". *)
LEMMA NotedFirst ==
  ASSUME NEW u, NEW f, NEW g, NEW a \in Nat, u[a] = "/",
         \A x \in Flags : ~ g[x], f["args_start"] = 0, f["uri_ext"] = 0
  PROVE  Noted(u, f, g, a, a + 1, a + 1)
  <1>1. ~ g["plus_in_uri"] /\ ~ g["quoted_uri"] /\ ~ g["complex_uri"]
    BY DEF Flags
  <1>2. Ext(u, a, a + 1, 0)
    BY DEF Ext
  <1>3. ~ \E i \in a .. (a + 1) - 1 : u[i] = "+"
    OBVIOUS
  <1> QED
    BY <1>1, <1>2, <1>3 DEF Noted

(* A byte that does not make it quit *)
LEMMA ExtMore ==
  ASSUME NEW u, NEW a \in Nat, NEW c \in Nat, a < c, NEW x \in Nat, Ext(u, a, c, x)
  PROVE  /\ u[c] = "." => Ext(u, a, c + 1, c + 1)
         /\ u[c] = "/" => Ext(u, a, c + 1, 0)
         /\ u[c] \notin {".", "/"} => Ext(u, a, c + 1, x)
  <1>1. u[c] = "." => Ext(u, a, c + 1, c + 1)
    BY DEF Ext, Free
  <1>2. u[c] = "/" => Ext(u, a, c + 1, 0)
    <2> SUFFICES ASSUME u[c] = "/", NEW i \in a + 1 .. (c + 1) - 1
                 PROVE  \E j \in i .. (c + 1) - 1 : u[j] = "/"
      BY DEF Ext
    <2>1. c \in i .. (c + 1) - 1
      OBVIOUS
    <2> QED
      BY <2>1
  <1>3. u[c] \notin {".", "/"} => Ext(u, a, c + 1, x)
    <2> SUFFICES ASSUME u[c] \notin {".", "/"} PROVE Ext(u, a, c + 1, x)
      OBVIOUS
    <2>1. CASE x = 0
      <3> SUFFICES ASSUME NEW i \in a + 1 .. (c + 1) - 1, u[i] = "."
                   PROVE  \E j \in i .. (c + 1) - 1 : u[j] = "/"
        BY <2>1 DEF Ext
      <3>1. i \in a + 1 .. c - 1
        OBVIOUS
      <3>2. PICK j \in i .. c - 1 : u[j] = "/"
        BY <2>1, <3>1 DEF Ext
      <3> QED
        BY <3>2
    <2>2. CASE x # 0
      BY <2>2 DEF Ext, Free
    <2> QED
      BY <2>1, <2>2
  <1> QED
    BY <1>1, <1>2, <1>3

LEMMA NotedOn ==
  ASSUME NEW u, NEW f \in Ptrs, NEW g, NEW f2, NEW g2, NEW a \in Nat, NEW c \in Nat, a < c,
         Noted(u, f, g, a, c, c), ~ Quits(u, a, c),
         f2["args_start"] = f["args_start"],
         f2["uri_ext"] = IF u[c] = "." THEN c + 1
                         ELSE IF u[c] = "/" THEN 0 ELSE f["uri_ext"],
         g2["plus_in_uri"] <=> g["plus_in_uri"] \/ u[c] = "+",
         g2["quoted_uri"] <=> g["quoted_uri"], g2["complex_uri"] <=> g["complex_uri"]
  PROVE  Noted(u, f2, g2, a, c + 1, c + 1)
  <1>1. /\ \A i \in a + 1 .. c - 1 : ~ Quits(u, a, i)
        /\ g["plus_in_uri"] <=> \E i \in a .. c - 1 : u[i] = "+"
        /\ ~ g["quoted_uri"] /\ ~ g["complex_uri"] /\ f["args_start"] = 0
        /\ Ext(u, a, c, f["uri_ext"])
    BY DEF Noted
  <1>2. f["uri_ext"] \in Nat
    BY DEF Ptrs, Pointers
  <1>3. Ext(u, a, c + 1, f2["uri_ext"])
    BY <1>1, <1>2, ExtMore
  <1>4. \A i \in a + 1 .. (c + 1) - 1 : ~ Quits(u, a, i)
    BY <1>1
  <1>5. (\E i \in a .. (c + 1) - 1 : u[i] = "+") <=> g["plus_in_uri"] \/ u[c] = "+"
    BY <1>1
  <1> QED
    BY <1>1, <1>3, <1>4, <1>5 DEF Noted

(* The byte that makes it quit *)
LEMMA NotedQuits ==
  ASSUME NEW u, NEW f, NEW g, NEW f2, NEW g2, NEW a \in Nat, NEW c \in Nat, a < c,
         Noted(u, f, g, a, c, c), Quits(u, a, c),
         f2["args_start"] = IF u[c] = "?" THEN c + 1 ELSE f["args_start"],
         f2["uri_ext"] = f["uri_ext"],
         g2["plus_in_uri"] <=> g["plus_in_uri"],
         g2["quoted_uri"] <=> g["quoted_uri"] \/ u[c] = "%",
         g2["complex_uri"] <=> g["complex_uri"] \/ u[c] \in {".", "/", "#"}
  PROVE  Noted(u, f2, g2, a, c, c + 1)
  <1>1. /\ \A i \in a + 1 .. c - 1 : ~ Quits(u, a, i)
        /\ g["plus_in_uri"] <=> \E i \in a .. c - 1 : u[i] = "+"
        /\ ~ g["quoted_uri"] /\ ~ g["complex_uri"] /\ f["args_start"] = 0
        /\ Ext(u, a, c, f["uri_ext"])
    BY DEF Noted
  <1>2. (\E i \in c .. (c + 1) - 1 : u[i] = "#") <=> u[c] = "#"
    OBVIOUS
  <1> QED
    BY <1>1, <1>2 DEF Noted

(* After that only a "#" is noted. *)
LEMMA NotedUri ==
  ASSUME NEW u, NEW f, NEW g, NEW g2, NEW a \in Nat, NEW k \in Nat, NEW c \in Nat, k < c,
         Noted(u, f, g, a, k, c),
         g2["plus_in_uri"] <=> g["plus_in_uri"], g2["quoted_uri"] <=> g["quoted_uri"],
         g2["complex_uri"] <=> g["complex_uri"] \/ u[c] = "#"
  PROVE  Noted(u, f, g2, a, k, c + 1)
  <1>1. (\E i \in k .. (c + 1) - 1 : u[i] = "#") <=>
          (\E i \in k .. c - 1 : u[i] = "#") \/ u[c] = "#"
    OBVIOUS
  <1> QED
    BY <1>1 DEF Noted

(* Spaces after the URI, which the parser goes back to *)
LEMMA NotedSpaces ==
  ASSUME NEW u, NEW f \in Ptrs, NEW g, NEW a \in Nat, NEW k, NEW e \in Nat, NEW d \in Nat,
         e <= d, All(u, e, d - 1, {SP}), Noted(u, f, g, a, k, e)
  PROVE  Noted(u, f, g, a, IF k = e THEN d ELSE k, d)
  <1>1. \A i \in e .. d - 1 : u[i] \notin {"?", "%", "#", ".", "/", "+"}
    BY DEF All, SP
  <1>2. k \in a + 1 .. e
    BY DEF Noted
  <1>3. CASE k = e
    <2>1. /\ \A i \in a + 1 .. e - 1 : ~ Quits(u, a, i)
          /\ g["plus_in_uri"] <=> \E i \in a .. e - 1 : u[i] = "+"
          /\ ~ g["quoted_uri"] /\ ~ g["complex_uri"] /\ f["args_start"] = 0
          /\ Ext(u, a, e, f["uri_ext"])
      BY <1>3 DEF Noted
    <2>2. \A i \in a + 1 .. d - 1 : ~ Quits(u, a, i)
      <3> TAKE i \in a + 1 .. d - 1
      <3>1. CASE i < e
        BY <2>1, <3>1
      <3>2. CASE e <= i
        BY <1>1, <3>2 DEF Quits
      <3> QED
        BY <3>1, <3>2
    <2>3. (\E i \in a .. d - 1 : u[i] = "+") <=> \E i \in a .. e - 1 : u[i] = "+"
      BY <1>1
    <2>4. Ext(u, a, d, f["uri_ext"])
      <3> DEFINE x == f["uri_ext"]
      <3>1. x \in Nat
        BY DEF Ptrs, Pointers
      <3> HIDE DEF x
      <3>2. CASE x = 0
        <4> SUFFICES ASSUME NEW i \in a + 1 .. d - 1, u[i] = "."
                     PROVE  \E j \in i .. d - 1 : u[j] = "/"
          BY <3>2 DEF Ext, x
        <4>1. i \in a + 1 .. e - 1
          BY <1>1
        <4>2. PICK j \in i .. e - 1 : u[j] = "/"
          BY <2>1, <3>2, <4>1 DEF Ext, x
        <4> QED
          BY <4>2
      <3>3. CASE x # 0
        <4>1. x - 1 \in a + 1 .. e - 1 /\ u[x - 1] = "." /\ Free(u, x, e - 1, {".", "/"})
          BY <2>1, <3>3 DEF Ext, x
        <4>2. Free(u, x, d - 1, {".", "/"})
          BY <1>1, <3>1, <4>1 DEF Free
        <4> QED
          BY <3>3, <4>1, <4>2 DEF Ext, x
      <3> QED
        BY <3>2, <3>3
    <2> QED
      BY <1>2, <1>3, <2>1, <2>2, <2>3, <2>4 DEF Noted
  <1>4. CASE k # e
    <2>1. k < e /\ k \in Nat
      BY <1>2, <1>4
    <2>2. (\E i \in k .. d - 1 : u[i] = "#") <=> \E i \in k .. e - 1 : u[i] = "#"
      BY <1>1, <2>1
    <2> QED
      BY <1>2, <1>4, <2>1, <2>2 DEF Noted
  <1> QED
    BY <1>3, <1>4

-----------------------------------------------------------------------------
(* What the parser has noted of the line when it is in the state s at the  *)
(* byte c: the version in its two fields, and the flags and pointers.      *)
Notes(u, q, s, c) ==
  /\ Versioned(u, q.ptr["http_protocol"], q.major, q.minor, s, c)
  /\ Marked(u, q.ptr, q.flag, s, c)

(* Whether a line with this request has a version that only GET may have. *)
NineOnly(q) == q.major * 1000 + q.minor = 9 /\ q.method # Get

NoteInv ==
  /\ busy => Notes(buf, r, state, p)
  /\ ~ busy /\ Pending => Notes(buf, r, r.state, pos)
  /\ Parsed => /\ Notes(buf, r, "almost_done", r.ptr["request_end"] + 1)
               /\ r.version = r.major * 1000 + r.minor
               /\ rc = "OK" <=> ~ NineOnly(r)

AnswerInv ==
  answer # "none" =>
    /\ ~ Pending
    /\ rc # "OK" => answer = "BAD_REQUEST"
    /\ answer = "simple" => r.version < 1000
    /\ answer = "headers" => r.version >= 1000

(* The pointers that are noted of a URI and of the version *)
NotePtr == {"http_protocol", "uri_start", "uri_end", "args_start", "uri_ext"}

LEMMA MarkedSame ==
  ASSUME NEW u, NEW f, NEW f2, NEW g, NEW s, NEW c,
         \A x \in NotePtr \ {"http_protocol"} : f2[x] = f[x], Marked(u, f, g, s, c)
  PROVE  Marked(u, f2, g, s, c)
  <1>1. /\ f2["uri_start"] = f["uri_start"] /\ f2["uri_end"] = f["uri_end"]
        /\ f2["args_start"] = f["args_start"] /\ f2["uri_ext"] = f["uri_ext"]
    BY DEF NotePtr
  <1>2. ASSUME NEW a, NEW k, NEW e, Noted(u, f, g, a, k, e) PROVE Noted(u, f2, g, a, k, e)
    BY <1>1, <1>2, NotedSame DEF Marks
  <1> QED
    BY <1>1, <1>2 DEF Marked

LEMMA NotesSame ==
  ASSUME NEW u, NEW q, NEW q2, NEW s, NEW c, \A x \in NotePtr : q2.ptr[x] = q.ptr[x],
         q2.flag = q.flag, q2.major = q.major, q2.minor = q.minor, Notes(u, q, s, c)
  PROVE  Notes(u, q2, s, c)
  <1>1. q2.ptr["http_protocol"] = q.ptr["http_protocol"]
    BY DEF NotePtr
  <1> QED
    BY <1>1, MarkedSame DEF Notes

-----------------------------------------------------------------------------
(* Before the URI nothing is noted. *)
Before == States \ (Reading \cup AfterUri)

Untouched(q) ==
  /\ q \in Requests /\ \A x \in Flags : ~ q.flag[x]
  /\ q.ptr["args_start"] = 0 /\ q.ptr["uri_ext"] = 0 /\ q.ptr["http_protocol"] = 0
  /\ q.major = 0 /\ q.minor = 0

LEMMA BeforeNotes ==
  ASSUME NEW u, NEW q, NEW s \in Before, NEW c
  PROVE  /\ Untouched(q) => Notes(u, q, s, c)
         /\ q \in Requests /\ q.ptr["http_protocol"] = 0 /\ Notes(u, q, s, c) => Untouched(q)
  <1>1. s \notin Protocol /\ s \notin Reading \cup AfterUri
    BY DEF Before, AfterUri
  <1>2. ASSUME Untouched(q) PROVE Notes(u, q, s, c)
    <2>1. Versioned(u, 0, 0, 0, s, c)
      BY <1>1, NoVersion
    <2>2. Marked(u, q.ptr, q.flag, s, c)
      BY <1>1, <1>2 DEF Marked, Untouched, AfterUri, Reading, Protocol
    <2> QED
      BY <1>2, <2>1, <2>2 DEF Notes, Untouched
  <1>3. ASSUME q \in Requests, q.ptr["http_protocol"] = 0, Notes(u, q, s, c)
        PROVE  Untouched(q)
    <2>1. q.major = 0 /\ q.minor = 0
      BY <1>1, <1>3 DEF Notes, Versioned, Counted, Minor, Protocol
    <2>2. (\A x \in Flags : ~ q.flag[x]) /\ q.ptr["args_start"] = 0 /\ q.ptr["uri_ext"] = 0
      BY <1>1, <1>3 DEF Notes, Marked
    <2> QED
      BY <1>3, <2>1, <2>2 DEF Untouched
  <1> QED
    BY <1>2, <1>3

LEMMA Slash == SP \notin {"/", "+", "?", "%", "#", "."}
  BY DEF SP

(* A URI begins, or the "/" of the schema stands for it. *)
LEMMA UriBegins ==
  ASSUME NEW u, NEW q, Untouched(q), NEW c \in Nat, q.ptr["uri_start"] = c, u[c] = "/"
  PROVE  Notes(u, q, "after_slash_in_uri", c + 1)
  <1>1. "after_slash_in_uri" \notin Protocol /\ "space_in_uri" \in Flags
    BY DEF Protocol, Flags
  <1>2. Versioned(u, 0, 0, 0, "after_slash_in_uri", c + 1)
    BY <1>1, NoVersion
  <1>3. Noted(u, q.ptr, q.flag, c, c + 1, c + 1)
    BY NotedFirst DEF Untouched
  <1>4. AfterSlash(u, c, c + 1) /\ ~ HasSpace(u, c, c + 1)
    <2>1. AfterSlash(u, c, c + 1)
      BY SlashMore
    <2>2. ~ HasSpace(u, c, c + 1)
      <3>1. \A i \in c .. (c + 1) - 1 : i = c
        OBVIOUS
      <3> QED
        BY <3>1, Slash DEF HasSpace
    <2> QED
      BY <2>1, <2>2
  <1>5. ~ q.flag["space_in_uri"]
    BY <1>1 DEF Untouched
  <1>6. Marked(u, q.ptr, q.flag, "after_slash_in_uri", c + 1)
    BY <1>3, <1>4, <1>5 DEF Marked, Reading, AfterUri, Protocol
  <1> QED
    BY <1>2, <1>6 DEF Notes, Untouched

LEMMA NoUri ==
  ASSUME NEW u, NEW q, Untouched(q), NEW a \in Nat, NEW c,
         q.ptr["uri_start"] = a, q.ptr["uri_end"] = a + 1, u[a] = "/"
  PROVE  Notes(u, q, "host_http_09", c)
  <1>1. "host_http_09" \notin Protocol /\ "space_in_uri" \in Flags
    BY DEF Protocol, Flags
  <1>2. Versioned(u, 0, 0, 0, "host_http_09", c)
    BY <1>1, NoVersion
  <1>3. Noted(u, q.ptr, q.flag, a, a + 1, a + 1)
    BY NotedFirst DEF Untouched
  <1>4. ~ HasSpace(u, a, a + 1) /\ a + 1 \in a + 1 .. a + 1
    <2>1. \A i \in a .. (a + 1) - 1 : i = a
      OBVIOUS
    <2> QED
      BY <2>1, Slash DEF HasSpace
  <1>5. ~ q.flag["space_in_uri"]
    BY <1>1 DEF Untouched
  <1>6. Marked(u, q.ptr, q.flag, "host_http_09", c)
    BY <1>3, <1>4, <1>5 DEF Marked, Reading, AfterUri, Protocol
  <1> QED
    BY <1>2, <1>6 DEF Notes, Untouched

-----------------------------------------------------------------------------
(* How a byte at c changes what is noted of the URI *)

LEMMA MarkedOn ==
  ASSUME NEW u, NEW f \in Ptrs, NEW g, NEW f2, NEW g2, NEW c \in Nat,
         NEW s \in {"after_slash_in_uri", "check_uri"},
         NEW t \in {"after_slash_in_uri", "check_uri"},
         f["uri_start"] < c, Marked(u, f, g, s, c), u[c] # SP,
         u[c] \notin {"?", "%", "#"}, s = "after_slash_in_uri" => u[c] \notin {".", "/"},
         t = "after_slash_in_uri" <=> u[c] = "/" \/ (u[c] = "+" /\ s = "after_slash_in_uri"),
         f2["uri_start"] = f["uri_start"], f2["args_start"] = f["args_start"],
         f2["uri_ext"] = IF u[c] = "." THEN c + 1
                         ELSE IF u[c] = "/" THEN 0 ELSE f["uri_ext"],
         g2["plus_in_uri"] <=> g["plus_in_uri"] \/ u[c] = "+",
         g2["quoted_uri"] <=> g["quoted_uri"], g2["complex_uri"] <=> g["complex_uri"],
         g2["space_in_uri"] <=> g["space_in_uri"]
  PROVE  Marked(u, f2, g2, t, c + 1)
  <1> DEFINE a == f["uri_start"]
  <1>1. a \in Nat /\ a <= c
    BY DEF Ptrs, Pointers
  <1>2. /\ g["space_in_uri"] <=> HasSpace(u, a, c)
        /\ Noted(u, f, g, a, c, c)
        /\ s = "after_slash_in_uri" <=> AfterSlash(u, a, c)
    BY DEF Marked, Reading
  <1>3. a < c /\ f2["uri_start"] = a
    OBVIOUS
  <1> HIDE DEF a
  <1>4. ~ Quits(u, a, c)
    BY <1>2 DEF Quits
  <1>5. Noted(u, f2, g2, a, c + 1, c + 1)
    BY <1>1, <1>2, <1>3, <1>4, NotedOn
  <1>6. g2["space_in_uri"] <=> HasSpace(u, a, c + 1)
    BY <1>1, <1>2, SpaceMore
  <1>7. t = "after_slash_in_uri" <=> AfterSlash(u, a, c + 1)
    BY <1>1, <1>2, SlashMore
  <1> QED
    BY <1>3, <1>5, <1>6, <1>7 DEF Marked, Reading, AfterUri, Protocol

LEMMA MarkedQuits ==
  ASSUME NEW u, NEW f \in Ptrs, NEW g, NEW f2, NEW g2, NEW c \in Nat,
         NEW s \in {"after_slash_in_uri", "check_uri"},
         f["uri_start"] < c, Marked(u, f, g, s, c),
         u[c] \in {"?", "%", "#"} \/ (s = "after_slash_in_uri" /\ u[c] \in {".", "/"}),
         f2["uri_start"] = f["uri_start"], f2["uri_ext"] = f["uri_ext"],
         f2["args_start"] = IF u[c] = "?" THEN c + 1 ELSE f["args_start"],
         g2["plus_in_uri"] <=> g["plus_in_uri"],
         g2["quoted_uri"] <=> g["quoted_uri"] \/ u[c] = "%",
         g2["complex_uri"] <=> g["complex_uri"] \/ u[c] \in {".", "/", "#"},
         g2["space_in_uri"] <=> g["space_in_uri"]
  PROVE  Marked(u, f2, g2, "uri", c + 1)
  <1> DEFINE a == f["uri_start"]
  <1>1. a \in Nat /\ a <= c /\ u[c] # SP
    <2>1. u[c] \in {"?", "%", "#", ".", "/"}
      OBVIOUS
    <2>2. a \in Nat /\ a <= c
      BY DEF Ptrs, Pointers
    <2> QED
      BY <2>1, <2>2, Slash
  <1>2. /\ g["space_in_uri"] <=> HasSpace(u, a, c)
        /\ Noted(u, f, g, a, c, c)
        /\ s = "after_slash_in_uri" <=> AfterSlash(u, a, c)
    BY DEF Marked, Reading
  <1>3. a < c /\ f2["uri_start"] = a
    OBVIOUS
  <1> HIDE DEF a
  <1>4. Quits(u, a, c)
    BY <1>2 DEF Quits
  <1>5. Noted(u, f2, g2, a, c, c + 1)
    BY <1>1, <1>2, <1>3, <1>4, NotedQuits
  <1>6. g2["space_in_uri"] <=> HasSpace(u, a, c + 1)
    BY <1>1, <1>2, SpaceMore
  <1>7. c \in a + 1 .. (c + 1) - 1
    BY <1>1, <1>3
  <1> QED
    BY <1>3, <1>5, <1>6, <1>7 DEF Marked, Reading, AfterUri, Protocol

LEMMA MarkedUri ==
  ASSUME NEW u, NEW f \in Ptrs, NEW g, NEW g2, NEW c \in Nat,
         f["uri_start"] < c, Marked(u, f, g, "uri", c), u[c] # SP,
         g2["plus_in_uri"] <=> g["plus_in_uri"], g2["quoted_uri"] <=> g["quoted_uri"],
         g2["complex_uri"] <=> g["complex_uri"] \/ u[c] = "#",
         g2["space_in_uri"] <=> g["space_in_uri"]
  PROVE  Marked(u, f, g2, "uri", c + 1)
  <1> DEFINE a == f["uri_start"]
  <1>1. a \in Nat /\ a <= c
    BY DEF Ptrs, Pointers
  <1>2. g["space_in_uri"] <=> HasSpace(u, a, c)
    BY DEF Marked, Reading
  <1>3. PICK k \in a + 1 .. c - 1 : Noted(u, f, g, a, k, c)
    BY DEF Marked
  <1>4. k \in Nat /\ k < c /\ k \in a + 1 .. (c + 1) - 1
    BY <1>1, <1>3
  <1>5. Noted(u, f, g2, a, k, c + 1)
    BY <1>1, <1>3, <1>4, NotedUri
  <1>6. g2["space_in_uri"] <=> HasSpace(u, a, c + 1)
    BY <1>1, <1>2, SpaceMore
  <1> QED
    BY <1>4, <1>5, <1>6 DEF Marked, Reading, AfterUri, Protocol

(* The URI ends before c. *)
LEMMA MarkedEnds ==
  ASSUME NEW u, NEW f \in Ptrs, NEW g, NEW f2, NEW c \in Nat, NEW s \in Reading,
         f["uri_start"] < c, Marked(u, f, g, s, c), NEW t,
         t \in {"almost_done", IF s = "uri" THEN "http_09" ELSE "check_uri_http_09"},
         f2["uri_start"] = f["uri_start"], f2["uri_end"] = c,
         f2["args_start"] = f["args_start"], f2["uri_ext"] = f["uri_ext"]
  PROVE  Marked(u, f2, g, t, c + 1)
  <1> DEFINE a == f["uri_start"]
  <1>1. a \in Nat /\ a < c
    BY DEF Ptrs, Pointers
  <1>2. g["space_in_uri"] <=> HasSpace(u, a, c)
    BY DEF Marked
  <1>3. ASSUME NEW k, Noted(u, f, g, a, k, c) PROVE Noted(u, f2, g, a, k, c)
    BY <1>3, NotedSame DEF Marks
  <1>4. s \in {"after_slash_in_uri", "check_uri"} => Noted(u, f2, g, a, c, c)
    BY <1>3 DEF Marked
  <1>5. s = "uri" => \E k \in a + 1 .. c - 1 : Noted(u, f2, g, a, k, c)
    BY <1>3 DEF Marked
  <1>6. \E k \in a + 1 .. c : Noted(u, f2, g, a, k, c)
    BY <1>1, <1>4, <1>5 DEF Reading
  <1>7. f2["uri_start"] = a /\ f2["uri_end"] = c
    OBVIOUS
  <1> HIDE DEF a
  <1>8. CASE t = "almost_done"
    BY <1>2, <1>6, <1>7, <1>8 DEF Marked, Reading, AfterUri, Protocol
  <1>9. CASE t = "http_09" /\ s = "uri"
    BY <1>2, <1>5, <1>7, <1>9 DEF Marked, Reading, AfterUri, Protocol
  <1>10. CASE t = "check_uri_http_09" /\ s # "uri"
    BY <1>2, <1>4, <1>7, <1>10 DEF Marked, Reading, AfterUri, Protocol
  <1> QED
    BY <1>8, <1>9, <1>10

(* After the URI nothing more is noted of it, *)
LEMMA MarkedAfter ==
  ASSUME NEW u, NEW f \in Ptrs, NEW g, NEW s \in AfterUri, NEW c, NEW d, NEW t,
         t = s \/ t \in Protocol, f["uri_start"] < f["uri_end"], Marked(u, f, g, s, c)
  PROVE  Marked(u, f, g, t, d)
  <1> DEFINE a == f["uri_start"]
             e == f["uri_end"]
  <1>1. a \in Nat /\ e \in Nat /\ a < e
    BY DEF Ptrs, Pointers
  <1>2. g["space_in_uri"] <=> HasSpace(u, a, e)
    BY DEF Marked
  <1>3. \E k \in a + 1 .. e : Noted(u, f, g, a, k, e)
    BY <1>1 DEF Marked, AfterUri
  <1> HIDE DEF a, e
  <1>4. CASE t = s
    BY <1>4 DEF Marked, AfterUri, Protocol, Reading
  <1>5. CASE t \in Protocol
    BY <1>2, <1>3, <1>5 DEF Marked, AfterUri, Protocol, Reading, a, e
  <1> QED
    BY <1>4, <1>5

(* unless it goes on after spaces. *)
LEMMA MarkedBack ==
  ASSUME NEW u, NEW f \in Ptrs, NEW g, NEW g2, NEW c \in Nat,
         f["uri_start"] < f["uri_end"], f["uri_end"] < c,
         All(u, f["uri_end"], c - 1, {SP}),
         g2["space_in_uri"],
         g2["plus_in_uri"] = g["plus_in_uri"], g2["quoted_uri"] = g["quoted_uri"],
         g2["complex_uri"] = g["complex_uri"]
  PROVE  /\ Marked(u, f, g, "check_uri_http_09", c) => Marked(u, f, g2, "check_uri", c)
         /\ Marked(u, f, g, "http_09", c) => Marked(u, f, g2, "uri", c)
  <1> DEFINE a == f["uri_start"]
             e == f["uri_end"]
  <1>1. a \in Nat /\ e \in Nat /\ a < e /\ e < c /\ e <= c
    BY DEF Ptrs, Pointers
  <1>2. All(u, e, c - 1, {SP}) /\ u[c - 1] = SP /\ c - 1 \in a .. c - 1
    BY <1>1 DEF All
  <1>3. HasSpace(u, a, c)
    BY <1>2 DEF HasSpace
  <1>4. ~ AfterSlash(u, a, c)
    <2> SUFFICES ASSUME NEW j \in a .. c - 1, u[j] = "/", All(u, j + 1, c - 1, {"+"})
                 PROVE  FALSE
      BY DEF AfterSlash
    <2>1. j # c - 1
      BY <1>2, Slash
    <2>2. c - 1 \in j + 1 .. c - 1
      BY <1>1, <2>1
    <2>3. u[c - 1] = "+"
      BY <2>2 DEF All
    <2> QED
      BY <1>2, <2>3, Slash
  <1>5. ASSUME NEW k, Noted(u, f, g, a, k, e) PROVE Noted(u, f, g2, a, IF k = e THEN c ELSE k, c)
    <2>1. Noted(u, f, g, a, IF k = e THEN c ELSE k, c)
      <3> HIDE DEF a, e
      <3> QED
        BY <1>1, <1>2, <1>5, NotedSpaces
    <2> QED
      BY <2>1, NotedSame DEF Marks
  <1>6. ASSUME Marked(u, f, g, "check_uri_http_09", c) PROVE Marked(u, f, g2, "check_uri", c)
    <2>1. Noted(u, f, g, a, e, e)
      BY <1>6 DEF Marked
    <2>2. Noted(u, f, g2, a, c, c)
      BY <1>5, <2>1
    <2> QED
      BY <1>3, <1>4, <2>2 DEF Marked, Reading, AfterUri, Protocol
  <1>7. ASSUME Marked(u, f, g, "http_09", c) PROVE Marked(u, f, g2, "uri", c)
    <2>1. PICK k \in a + 1 .. e - 1 : Noted(u, f, g, a, k, e)
      BY <1>7 DEF Marked
    <2>2. k # e /\ k \in a + 1 .. c - 1
      BY <1>1, <2>1
    <2>3. Noted(u, f, g2, a, k, c)
      BY <1>5, <2>1, <2>2
    <2> QED
      BY <1>3, <2>2, <2>3 DEF Marked, Reading, AfterUri, Protocol
  <1> QED
    BY <1>6, <1>7

-----------------------------------------------------------------------------
(* The ways on, with what is noted at the byte they lead to *)
Jots(q) ==
  \/ \E t \in States : Go(t, q) /\ Notes(buf, q, t, p + 1)
  \/ \E t \in States : GoSame(t, q) /\ Notes(buf, q, t, p)
  \/ Done(q) /\ q \in Requests /\ Notes(buf, q, "almost_done", EndOf(q) + 1)
  \/ \E code \in {"INVALID_METHOD", "INVALID_REQUEST"} : Fail(code, q)

LEMMA DoneNotes ==
  ASSUME LineInv, NEW q \in Requests, Done(q)
  PROVE  /\ r' \in Requests /\ \A x \in Pointers \ {"request_end"} : r'.ptr[x] = q.ptr[x]
         /\ r'.ptr["request_end"] = EndOf(q)
         /\ r'.flag = q.flag /\ r'.major = q.major /\ r'.minor = q.minor
         /\ r'.method = q.method /\ r'.version = q.major * 1000 + q.minor
         /\ rc' = IF NineOnly(q) THEN "INVALID_09_METHOD" ELSE "OK"
  <1> DEFINE v == q.major * 1000 + q.minor
             q1 == Point(q, "request_end", EndOf(q))
  <1>1. r' \in Requests /\ r'.ptr = [q.ptr EXCEPT !["request_end"] = EndOf(q)]
    BY DoneFacts
  <1>2. /\ r'.ptr["request_end"] = EndOf(q)
        /\ \A x \in Pointers \ {"request_end"} : r'.ptr[x] = q.ptr[x]
    BY <1>1 DEF Requests, Ptrs, Pointers
  <1>3. r' = [q1 EXCEPT !.version = v, !.state = "start"]
    BY DEF Done, EndOf
  <1>4. rc' = IF v = 9 /\ q.method # Get THEN "INVALID_09_METHOD" ELSE "OK"
    BY DEF Done
  <1>5. /\ q1.flag = q.flag /\ q1.major = q.major /\ q1.minor = q.minor
        /\ q1.method = q.method /\ q1 \in Requests
    <2>1. EndOf(q) \in Nat
      BY DEF EndOf, LineInv, Typed, Requests, Ptrs, Pointers
    <2>2. q1 \in Requests
      BY <2>1, PointFacts DEF Pointers
    <2> QED
      BY <2>2 DEF Point, Requests
  <1> HIDE DEF q1, v
  <1>6. /\ r'.flag = q1.flag /\ r'.major = q1.major /\ r'.minor = q1.minor
        /\ r'.method = q1.method /\ r'.version = v
    BY <1>3, <1>5 DEF Requests
  <1> QED
    BY <1>1, <1>2, <1>4, <1>5, <1>6 DEF v, NineOnly

LEMMA JotsNote ==
  ASSUME LineInv, NoteInv, NEW s, At(s), NEW q, Jots(q)
  PROVE  NoteInv'
  <1>1. busy /\ Pending
    BY DEF At, LineInv, Places
  <1>2. ASSUME NEW t \in States, Go(t, q), Notes(buf, q, t, p + 1) PROVE NoteInv'
    BY <1>1, <1>2 DEF NoteInv, Go, ioVars, Parsed, Pending
  <1>3. ASSUME NEW t \in States, GoSame(t, q), Notes(buf, q, t, p) PROVE NoteInv'
    BY <1>1, <1>3 DEF NoteInv, GoSame, ioVars, Parsed, Pending
  <1>4. ASSUME NEW code \in {"INVALID_METHOD", "INVALID_REQUEST"}, Fail(code, q)
        PROVE  NoteInv'
    BY <1>4 DEF NoteInv, Fail, Parsed, Pending
  <1>5. ASSUME Done(q), q \in Requests, Notes(buf, q, "almost_done", EndOf(q) + 1)
        PROVE  NoteInv'
    <2>1. /\ r' \in Requests /\ \A x \in Pointers \ {"request_end"} : r'.ptr[x] = q.ptr[x]
          /\ r'.ptr["request_end"] = EndOf(q)
          /\ r'.flag = q.flag /\ r'.major = q.major /\ r'.minor = q.minor
          /\ r'.method = q.method /\ r'.version = q.major * 1000 + q.minor
          /\ rc' = IF NineOnly(q) THEN "INVALID_09_METHOD" ELSE "OK"
      BY <1>5, DoneNotes
    <2>2. busy' = FALSE /\ buf' = buf
      BY <1>5 DEF Done, ioVars
    <2>3. \A x \in NotePtr : r'.ptr[x] = q.ptr[x]
      BY <2>1 DEF NotePtr, Pointers
    <2>4. Notes(buf, r', "almost_done", r'.ptr["request_end"] + 1)
      BY <1>5, <2>1, <2>3, NotesSame
    <2>5. Notes(buf, r, "almost_done", r.ptr["request_end"] + 1)'
      BY <2>2, <2>4
    <2>6. (r.version = r.major * 1000 + r.minor)' /\ (rc = "OK" <=> ~ NineOnly(r))'
      BY <2>1 DEF NineOnly
    <2>7. ~ Pending'
      BY <2>1 DEF Pending
    <2> QED
      BY <2>2, <2>5, <2>6, <2>7 DEF NoteInv
  <1> QED
    BY <1>2, <1>3, <1>4, <1>5 DEF Jots

(* What is known when a byte is looked at *)
LEMMA NotesHere ==
  ASSUME LineInv, ReadInv, TellInv, NoteInv, NEW s \in States, At(s)
  PROVE  /\ Notes(buf, r, s, p) /\ Known(buf, r.ptr, s, p)
         /\ r \in Requests /\ r.ptr \in Ptrs /\ p \in Nat \ {0}
         /\ s \notin Protocol => r.ptr["http_protocol"] = 0
         /\ s \in Numbered => r.ptr["http_protocol"] \in Nat \ {0}
         /\ r.ptr["request_end"] = 0
  <1>1. /\ Known(buf, r.ptr, s, p) /\ r \in Requests /\ r.ptr \in Ptrs /\ p \in Nat \ {0}
        /\ r.ptr["request_end"] = 0
    BY KnownHere
  <1>2. Notes(buf, r, s, p)
    BY DEF NoteInv, At
  <1>3. /\ s \notin Protocol => r.ptr["http_protocol"] = 0
        /\ s \in Numbered => r.ptr["http_protocol"] # 0
    BY <1>1 DEF Known, Meant, Protocoled
  <1>4. r.ptr["http_protocol"] \in Nat
    BY <1>1 DEF Ptrs, Pointers
  <1> QED
    BY <1>1, <1>2, <1>3, <1>4

-----------------------------------------------------------------------------
(* Before the URI *)

LEMMA UntouchedHere ==
  ASSUME LineInv, ReadInv, TellInv, NoteInv, NEW s \in Before, At(s)
  PROVE  Untouched(r) /\ p \in Nat \ {0} /\ Known(buf, r.ptr, s, p)
  <1>1. s \in States /\ s \notin Protocol
    BY DEF Before, AfterUri
  <1> QED
    BY <1>1, NotesHere, BeforeNotes

(* The pointers that may be set before the URI *)
Elsewhere == Pointers \ {"args_start", "uri_ext", "http_protocol"}

LEMMA UntouchedPoint ==
  ASSUME NEW q, Untouched(q), NEW x \in Elsewhere,
         NEW v \in Nat
  PROVE  /\ Untouched(Point(q, x, v)) /\ Point(q, x, v).ptr[x] = v
         /\ \A y \in Pointers \ {x} : Point(q, x, v).ptr[y] = q.ptr[y]
  <1>1. Point(q, x, v) \in Requests /\ Point(q, x, v).ptr = [q.ptr EXCEPT ![x] = v]
    BY PointFacts DEF Untouched, Elsewhere
  <1>2. q.ptr \in Ptrs /\ {"args_start", "uri_ext", "http_protocol"} \subseteq Pointers
    BY DEF Untouched, Requests, Pointers
  <1>3. /\ Point(q, x, v).ptr[x] = v
        /\ \A y \in Pointers \ {x} : Point(q, x, v).ptr[y] = q.ptr[y]
    BY <1>1, <1>2 DEF Ptrs, Elsewhere
  <1>4. /\ Point(q, x, v).flag = q.flag /\ Point(q, x, v).major = q.major
        /\ Point(q, x, v).minor = q.minor
    BY DEF Point, Untouched, Requests
  <1> QED
    BY <1>1, <1>2, <1>3, <1>4 DEF Untouched, Elsewhere

LEMMA UntouchedSlash ==
  ASSUME NEW q, Untouched(q)
  PROVE  /\ Untouched(SlashOfSchema(q))
         /\ SlashOfSchema(q).ptr["uri_start"] = q.ptr["schema_end"] + 1
         /\ SlashOfSchema(q).ptr["uri_end"] = q.ptr["schema_end"] + 2
  <1> DEFINE i == q.ptr["schema_end"] + 1
             j == q.ptr["schema_end"] + 2
             q1 == Point(q, "uri_start", i)
             q2 == Point(q1, "uri_end", j)
  <1>1. /\ i \in Nat /\ j \in Nat /\ "uri_start" \in Elsewhere /\ "uri_end" \in Elsewhere
        /\ "uri_start" \in Pointers \ {"uri_end"}
    BY DEF Untouched, Requests, Ptrs, Pointers, Elsewhere
  <1>2. SlashOfSchema(q) = q2
    BY DEF SlashOfSchema
  <1> HIDE DEF i, j
  <1>3. Untouched(q1) /\ q1.ptr["uri_start"] = i
    BY <1>1, UntouchedPoint
  <1> HIDE DEF q1
  <1>4. /\ Untouched(q2) /\ q2.ptr["uri_end"] = j
        /\ q2.ptr["uri_start"] = q1.ptr["uri_start"]
    <2>1. /\ Untouched(q2) /\ q2.ptr["uri_end"] = j
          /\ \A y \in Pointers \ {"uri_end"} : q2.ptr[y] = q1.ptr[y]
      BY <1>1, <1>3, UntouchedPoint
    <2> HIDE DEF q2
    <2> QED
      BY <1>1, <2>1
  <1> HIDE DEF q2
  <1> QED
    BY <1>2, <1>3, <1>4 DEF i, j

(* All the ways on before the URI *)
Passes(q) ==
  \/ \E t \in Before : Go(t, q)
  \/ ch = "/" /\ q.ptr["uri_start"] = p /\ Go("after_slash_in_uri", q)
  \/ /\ q.ptr["uri_end"] = q.ptr["uri_start"] + 1 /\ buf[q.ptr["uri_start"]] = "/"
     /\ Go("host_http_09", q)
  \/ \E code \in {"INVALID_METHOD", "INVALID_REQUEST"} : Fail(code, q)

LEMMA PassesNote ==
  ASSUME LineInv, NoteInv, NEW s, At(s), NEW q, Untouched(q), Passes(q)
  PROVE  NoteInv'
  <1>1. p \in Nat /\ q.ptr["uri_start"] \in Nat
    BY DEF LineInv, Typed, Untouched, Requests, Ptrs, Pointers
  <1>2. Before \cup {"after_slash_in_uri", "host_http_09"} \subseteq States
    BY DEF Before, States
  <1>3. \A t \in Before : Notes(buf, q, t, p + 1)
    BY BeforeNotes
  <1>4. ch = "/" /\ q.ptr["uri_start"] = p => Notes(buf, q, "after_slash_in_uri", p + 1)
    BY <1>1, UriBegins DEF ch
  <1>5. q.ptr["uri_end"] = q.ptr["uri_start"] + 1 /\ buf[q.ptr["uri_start"]] = "/" =>
          Notes(buf, q, "host_http_09", p + 1)
    BY <1>1, NoUri
  <1>6. Jots(q)
    BY <1>2, <1>3, <1>4, <1>5 DEF Passes, Jots
  <1> QED
    BY <1>6, JotsNote

LEMMA StatesBefore ==
  Before = {"start", "method", "spaces_before_uri", "schema", "schema_slash",
            "schema_slash_slash", "host_start", "host", "host_end", "host_ip_literal", "port"}
  BY DEF Before, States, Reading, AfterUri, Protocol

LEMMA StartNotes == ASSUME LineInv, ReadInv, TellInv, NoteInv, Start PROVE NoteInv'
  <1> DEFINE q == Point(r, "request_start", p)
  <1>1. /\ At("start") /\ {"start", "method"} \subseteq Before
        /\ "request_start" \in Elsewhere
    BY StatesBefore DEF Start, Pointers, Elsewhere
  <1>2. Untouched(q)
    BY <1>1, UntouchedHere, UntouchedPoint
  <1>3. Passes(q)
    BY <1>1 DEF Start, Passes
  <1> QED
    BY <1>1, <1>2, <1>3, PassesNote

LEMMA MethodNotes == ASSUME LineInv, ReadInv, TellInv, NoteInv, Method PROVE NoteInv'
  <1> DEFINE name == SubSeq(buf, r.ptr["request_start"], p - 1)
             m == IF name \in KnownMethods THEN name ELSE r.method
             q1 == Point(r, "method_end", p - 1)
             q == [q1 EXCEPT !.method = m]
  <1>1. /\ At("method") /\ {"method", "spaces_before_uri"} \subseteq Before
        /\ "method_end" \in Elsewhere
    BY StatesBefore DEF Method, Pointers, Elsewhere
  <1>2. Untouched(r) /\ p - 1 \in Nat /\ r.method \in KnownMethods \cup {Unknown}
    BY <1>1, UntouchedHere DEF Untouched, Requests
  <1>3. Untouched(q1) /\ q1.method = r.method
    BY <1>1, <1>2, UntouchedPoint DEF Point, Untouched, Requests
  <1>4. m \in KnownMethods \cup {Unknown}
    BY <1>2
  <1>5. Passes(q) \/ Passes(r)
    BY <1>1, <1>3 DEF Method, Passes
  <1> HIDE DEF q1, m
  <1>6. Untouched(q)
    BY <1>3, <1>4 DEF Untouched, Requests
  <1> HIDE DEF q
  <1> QED
    BY <1>1, <1>2, <1>5, <1>6, PassesNote

LEMMA SchemaNotes ==
  ASSUME LineInv, ReadInv, TellInv, NoteInv,
         SpacesBeforeUri \/ Schema \/ SchemaSlash \/ SchemaSlashSlash
  PROVE  NoteInv'
  <1> DEFINE qu == Point(r, "uri_start", p)
             qs == Point(r, "schema_start", p)
             qe == Point(r, "schema_end", p)
  <1>1. /\ {"spaces_before_uri", "schema", "schema_slash", "schema_slash_slash",
            "host_start"} \subseteq Before
        /\ {"uri_start", "schema_start", "schema_end"} \subseteq Elsewhere
    BY StatesBefore DEF Pointers, Elsewhere
  <1>2. PICK s \in Before : At(s)
    BY <1>1 DEF SpacesBeforeUri, Schema, SchemaSlash, SchemaSlashSlash, Expect
  <1>3. Untouched(r) /\ p \in Nat
    BY <1>2, UntouchedHere
  <1>4. Untouched(qu) /\ Untouched(qs) /\ Untouched(qe) /\ qu.ptr["uri_start"] = p
    BY <1>1, <1>3, UntouchedPoint
  <1>5. Passes(r) \/ Passes(qu) \/ Passes(qs) \/ Passes(qe)
    <2> HIDE DEF qu, qs, qe
    <2>1. CASE SpacesBeforeUri
      BY <1>1, <1>4, <2>1 DEF SpacesBeforeUri, Passes, Invalid, qu, qs
    <2>2. CASE Schema
      BY <1>1, <2>2 DEF Schema, Passes, Invalid, qe
    <2>3. CASE SchemaSlash \/ SchemaSlashSlash
      BY <1>1, <2>3 DEF SchemaSlash, SchemaSlashSlash, Expect, Passes, Invalid
    <2> QED
      BY <2>1, <2>2, <2>3
  <1> HIDE DEF qu, qs, qe
  <1> QED
    BY <1>2, <1>3, <1>4, <1>5, PassesNote

(* The host, whose "/" may be the one after the schema *)
Slashed(q) == Untouched(q) /\ buf[q.ptr["schema_end"] + 1] = "/"

LEMMA SlashedHere ==
  ASSUME LineInv, ReadInv, TellInv, NoteInv, NEW s \in InAuthority, At(s)
  PROVE  Slashed(r) /\ p \in Nat
  <1>1. s \in Before
    BY StatesBefore DEF InAuthority
  <1>2. Untouched(r) /\ p \in Nat /\ Known(buf, r.ptr, s, p)
    BY <1>1, UntouchedHere
  <1>3. /\ s \in InSchema \cup InAuthority
        /\ s \notin Ahead \cup {"schema"} /\ s # "schema_slash"
    BY DEF InAuthority, InSchema, Ahead
  <1>4. Absolute(r.ptr)
    BY <1>2, <1>3 DEF Known, Meant, Aimed
  <1>5. buf[r.ptr["schema_end"] + 1] = "/"
    BY <1>2, <1>3, <1>4 DEF Known, Meant, Schemed
  <1> QED
    BY <1>2, <1>5 DEF Slashed

LEMMA SlashedPoint ==
  ASSUME NEW q, Slashed(q), NEW x \in {"host_start", "host_end", "port_end"}, NEW v \in Nat
  PROVE  Slashed(Point(q, x, v))
  <1>1. x \in Elsewhere /\ "schema_end" \in Pointers \ {x}
    BY DEF Pointers, Elsewhere
  <1>2. Untouched(Point(q, x, v)) /\ Point(q, x, v).ptr["schema_end"] = q.ptr["schema_end"]
    BY <1>1, UntouchedPoint DEF Slashed
  <1> QED
    BY <1>2 DEF Slashed

(* The two ways into the URI that a host and a port have *)
LEMMA SlashedPasses ==
  ASSUME LineInv, NoteInv, NEW s, At(s), NEW q, Slashed(q),
         \/ ch = "/" /\ Go("after_slash_in_uri", Point(q, "uri_start", p))
         \/ Go("host_http_09", SlashOfSchema(q))
  PROVE  NoteInv'
  <1> DEFINE qu == Point(q, "uri_start", p)
             qs == SlashOfSchema(q)
  <1>1. p \in Nat /\ "uri_start" \in Elsewhere
    BY DEF LineInv, Typed, Pointers, Elsewhere
  <1>2. q.ptr["schema_end"] \in Nat /\ Untouched(q)
    BY DEF Slashed, Untouched, Requests, Ptrs, Pointers
  <1>3. Untouched(qu) /\ qu.ptr["uri_start"] = p
    BY <1>1, <1>2, UntouchedPoint
  <1>4. /\ Untouched(qs) /\ qs.ptr["uri_start"] = q.ptr["schema_end"] + 1
        /\ qs.ptr["uri_end"] = q.ptr["schema_end"] + 2
    BY <1>2, UntouchedSlash
  <1> HIDE DEF qu, qs
  <1>5. buf[qs.ptr["uri_start"]] = "/" /\ qs.ptr["uri_end"] = qs.ptr["uri_start"] + 1
    BY <1>2, <1>4 DEF Slashed
  <1>6. Passes(qu) \/ Passes(qs)
    BY <1>3, <1>5 DEF Passes, qu, qs
  <1> QED
    BY <1>3, <1>4, <1>6, PassesNote

LEMMA HostEndsNote ==
  ASSUME LineInv, NoteInv, NEW s, At(s), NEW q, Slashed(q), HostEnds(q)
  PROVE  NoteInv'
  <1> DEFINE h == Point(q, "host_end", p)
  <1>1. p \in Nat /\ "port" \in Before
    BY StatesBefore DEF LineInv, Typed
  <1>2. Slashed(h)
    BY <1>1, SlashedPoint
  <1>3. \/ Passes(h)
        \/ ch = "/" /\ Go("after_slash_in_uri", Point(h, "uri_start", p))
        \/ Go("host_http_09", SlashOfSchema(h))
    BY <1>1 DEF HostEnds, Passes, Invalid
  <1> HIDE DEF h
  <1> QED
    BY <1>2, <1>3, SlashedPasses, PassesNote DEF Slashed

LEMMA InHostNotes ==
  ASSUME LineInv, NoteInv, NEW s, At(s), NEW q, Slashed(q), InHost(q)
  PROVE  NoteInv'
  <1>1. HostEnds(q) \/ Passes(q)
    BY StatesBefore DEF InHost, Passes
  <1> QED
    BY <1>1, HostEndsNote, PassesNote DEF Slashed

LEMMA HostNotes ==
  ASSUME LineInv, ReadInv, TellInv, NoteInv,
         HostStart \/ Host \/ HostEnd \/ HostIpLiteral \/ Port
  PROVE  NoteInv'
  <1> DEFINE q == Point(r, "host_start", p)
             h == Point(r, "port_end", p)
  <1>1. {"host_start", "host", "host_end", "host_ip_literal", "port"} \subseteq Before
    BY StatesBefore
  <1>2. PICK s \in InAuthority : At(s)
    BY DEF HostStart, Host, HostEnd, HostIpLiteral, Port, InAuthority
  <1>3. Slashed(r) /\ p \in Nat
    BY <1>2, SlashedHere
  <1>4. Slashed(q) /\ Slashed(h)
    BY <1>3, SlashedPoint
  <1>5. \/ Passes(q) \/ InHost(q) \/ Passes(r) \/ InHost(r) \/ HostEnds(r)
        \/ ch = "/" /\ Go("after_slash_in_uri", Point(h, "uri_start", p))
        \/ Go("host_http_09", SlashOfSchema(h))
    <2> HIDE DEF q, h
    <2>1. CASE HostStart
      BY <1>1, <2>1 DEF HostStart, Passes, q
    <2>2. CASE Host \/ HostEnd
      BY <2>2 DEF Host, HostEnd
    <2>3. CASE HostIpLiteral
      BY <1>1, <2>3 DEF HostIpLiteral, Passes, Invalid
    <2>4. CASE Port
      BY <1>1, <2>4 DEF Port, Passes, Invalid, h
    <2> QED
      BY <2>1, <2>2, <2>3, <2>4
  <1> HIDE DEF q, h
  <1>6. Untouched(q) /\ Untouched(r)
    BY <1>3, <1>4 DEF Slashed
  <1> QED
    BY <1>2, <1>3, <1>4, <1>5, <1>6, SlashedPasses, PassesNote, InHostNotes, HostEndsNote

-----------------------------------------------------------------------------
(* In the URI and after it *)

(* A request without a protocol, and so far without a version *)
Unversioned(q) ==
  q \in Requests /\ q.ptr["http_protocol"] = 0 /\ q.major = 0 /\ q.minor = 0

LEMMA FlagPut ==
  ASSUME NEW q, Unversioned(q), NEW x \in Flags
  PROVE  /\ Unversioned(Flag(q, x)) /\ Flag(q, x).ptr = q.ptr /\ Flag(q, x).flag[x] = TRUE
         /\ \A y \in Flags \ {x} : Flag(q, x).flag[y] = q.flag[y]
  <1>1. Flag(q, x) \in Requests /\ Flag(q, x).ptr = q.ptr
    BY FlagFacts DEF Unversioned
  <1>2. Flag(q, x).flag = [q.flag EXCEPT ![x] = TRUE]
    BY DEF Flag, Unversioned, Requests
  <1>3. /\ Flag(q, x).flag[x] = TRUE
        /\ \A y \in Flags \ {x} : Flag(q, x).flag[y] = q.flag[y]
    BY <1>2 DEF Unversioned, Requests
  <1>4. Flag(q, x).major = q.major /\ Flag(q, x).minor = q.minor
    BY DEF Flag, Unversioned, Requests
  <1> QED
    BY <1>1, <1>3, <1>4 DEF Unversioned

LEMMA MarkPut ==
  ASSUME NEW q, Unversioned(q), NEW x \in UriMark, NEW v \in Nat
  PROVE  /\ Unversioned(Point(q, x, v)) /\ Point(q, x, v).ptr[x] = v
         /\ \A y \in Pointers \ {x} : Point(q, x, v).ptr[y] = q.ptr[y]
         /\ Point(q, x, v).flag = q.flag
  <1>1. x \in Pointers /\ x # "http_protocol" /\ "http_protocol" \in Pointers
    BY DEF UriMark, Pointers
  <1>2. Point(q, x, v) \in Requests /\ Point(q, x, v).ptr = [q.ptr EXCEPT ![x] = v]
    BY <1>1, PointFacts DEF Unversioned
  <1>3. /\ Point(q, x, v).ptr[x] = v
        /\ \A y \in Pointers \ {x} : Point(q, x, v).ptr[y] = q.ptr[y]
    BY <1>1, <1>2 DEF Unversioned, Requests, Ptrs
  <1>4. /\ Point(q, x, v).flag = q.flag /\ Point(q, x, v).major = q.major
        /\ Point(q, x, v).minor = q.minor
    BY DEF Point, Unversioned, Requests
  <1> QED
    BY <1>1, <1>2, <1>3, <1>4 DEF Unversioned

LEMMA MarkedNotes ==
  ASSUME NEW u, NEW q, Unversioned(q), NEW t, t \notin Protocol, NEW c,
         Marked(u, q.ptr, q.flag, t, c)
  PROVE  Notes(u, q, t, c)
  BY NoVersion DEF Notes, Unversioned

LEMMA MarkedGoes ==
  ASSUME LineInv, NoteInv, NEW s, At(s), NEW q, Unversioned(q),
         NEW t \in Reading \cup Spaced, Marked(buf, q.ptr, q.flag, t, p + 1), Go(t, q)
  PROVE  NoteInv'
  <1>1. t \in States /\ t \notin Protocol
    BY DEF Reading, Spaced, States, Protocol
  <1>2. Jots(q)
    BY <1>1, MarkedNotes DEF Jots
  <1> QED
    BY <1>2, JotsNote

(* A line without a protocol ends. *)
LEMMA MarkedEnd09 ==
  ASSUME LineInv, NoteInv, NEW s, At(s), NEW q, Unversioned(q), q.ptr["request_end"] = 0,
         Marked(buf, q.ptr, q.flag, "almost_done", p + 1), Ends09(q)
  PROVE  NoteInv'
  <1> DEFINE n == Nine(q)
  <1>1. n \in Requests /\ n.ptr = q.ptr
    BY NineFacts DEF Unversioned
  <1>2. n.flag = q.flag /\ n.major = 0 /\ n.minor = 9
    BY DEF Nine, Unversioned, Requests
  <1>3. Go("almost_done", n) \/ Done(n)
    BY DEF Ends09
  <1> HIDE DEF n
  <1>4. Notes(buf, n, "almost_done", p + 1)
    BY <1>1, <1>2, VersionNine DEF Notes, Unversioned
  <1>5. EndOf(n) = p /\ "almost_done" \in States
    BY <1>1 DEF EndOf, States
  <1>6. Jots(n)
    BY <1>1, <1>3, <1>4, <1>5 DEF Jots
  <1> QED
    BY <1>6, JotsNote

(* What is known when a byte of the URI is looked at *)
LEMMA MarkedHere ==
  ASSUME LineInv, ReadInv, TellInv, NoteInv, NEW s \in Reading, At(s)
  PROVE  /\ Marked(buf, r.ptr, r.flag, s, p) /\ r.ptr["uri_start"] < p /\ r.ptr \in Ptrs
         /\ Unversioned(r) /\ p \in Nat /\ p + 1 \in Nat /\ r.ptr["request_end"] = 0
  <1>1. s \in States /\ s \notin Protocol
    BY DEF Reading, States, Protocol
  <1>2. /\ Notes(buf, r, s, p) /\ Known(buf, r.ptr, s, p) /\ r \in Requests /\ p \in Nat
        /\ r.ptr["http_protocol"] = 0 /\ r.ptr \in Ptrs /\ r.ptr["request_end"] = 0
    BY <1>1, NotesHere
  <1>3. r.major = 0 /\ r.minor = 0
    BY <1>1, <1>2 DEF Notes, Versioned, Counted, Minor, Protocol
  <1>4. r.ptr["uri_start"] < p
    BY <1>2 DEF Known, Meant, Cut
  <1> QED
    BY <1>2, <1>3, <1>4 DEF Notes, Unversioned

LEMMA UriEndsNote ==
  ASSUME LineInv, ReadInv, TellInv, NoteInv, NEW s \in Reading, At(s),
         UriEnds(IF s = "uri" THEN "http_09" ELSE "check_uri_http_09")
  PROVE  NoteInv'
  <1> DEFINE q == Point(r, "uri_end", p)
             t == IF s = "uri" THEN "http_09" ELSE "check_uri_http_09"
  <1>1. /\ Marked(buf, r.ptr, r.flag, s, p) /\ r.ptr["uri_start"] < p /\ r.ptr \in Ptrs
        /\ Unversioned(r) /\ p \in Nat /\ r.ptr["request_end"] = 0
    BY MarkedHere
  <1>2. /\ Unversioned(q) /\ q.ptr["uri_end"] = p /\ q.flag = r.flag
        /\ \A y \in Pointers \ {"uri_end"} : q.ptr[y] = r.ptr[y]
    BY <1>1, MarkPut DEF UriMark
  <1>3. \/ Go(t, q) \/ Ends09(q) \/ Fail("INVALID_REQUEST", r)
    BY DEF UriEnds, Invalid
  <1> HIDE DEF q
  <1>4. /\ q.ptr["uri_start"] = r.ptr["uri_start"] /\ q.ptr["args_start"] = r.ptr["args_start"]
        /\ q.ptr["uri_ext"] = r.ptr["uri_ext"] /\ q.ptr["request_end"] = 0
    BY <1>1, <1>2 DEF Pointers
  <1>5. /\ Marked(buf, q.ptr, q.flag, t, p + 1)
        /\ Marked(buf, q.ptr, q.flag, "almost_done", p + 1)
    BY <1>1, <1>2, <1>4, MarkedEnds
  <1>6. t \in Reading \cup Spaced
    BY DEF Spaced
  <1> HIDE DEF t
  <1>7. CASE Go(t, q)
    BY <1>2, <1>5, <1>6, <1>7, MarkedGoes
  <1>8. CASE Ends09(q)
    BY <1>2, <1>4, <1>5, <1>8, MarkedEnd09
  <1>9. CASE Fail("INVALID_REQUEST", r)
    BY <1>9, JotsNote DEF Jots
  <1> QED
    BY <1>3, <1>7, <1>8, <1>9

LEMMA FlagsAre ==
  /\ Flags = {"complex_uri", "quoted_uri", "plus_in_uri", "space_in_uri"}
  /\ {"?", "%", "#", ".", "/", "+", SP} \subseteq Unusual /\ SP \notin {"?", "%", "#", ".", "/", "+"}
  BY DEF Flags, Unusual, SP

(* The byte after which the URI is not checked any further *)
LEMMA UriQuitsNote ==
  ASSUME LineInv, ReadInv, TellInv, NoteInv,
         NEW s \in {"after_slash_in_uri", "check_uri"}, At(s),
         \/ UriQuits
         \/ s = "after_slash_in_uri" /\ ch \in {".", "/"} /\ Go("uri", Flag(r, "complex_uri"))
  PROVE  NoteInv'
  <1> DEFINE qq == Flag(r, "quoted_uri")
             qc == Flag(r, "complex_uri")
             qa == Point(r, "args_start", p + 1)
  <1>1. /\ Marked(buf, r.ptr, r.flag, s, p) /\ r.ptr["uri_start"] < p /\ r.ptr \in Ptrs
        /\ Unversioned(r) /\ p \in Nat /\ p + 1 \in Nat
    BY MarkedHere DEF Reading
  <1>2. /\ Unversioned(qq) /\ qq.ptr = r.ptr /\ qq.flag["quoted_uri"] = TRUE
        /\ \A y \in Flags \ {"quoted_uri"} : qq.flag[y] = r.flag[y]
    BY <1>1, FlagPut, FlagsAre
  <1>3. /\ Unversioned(qc) /\ qc.ptr = r.ptr /\ qc.flag["complex_uri"] = TRUE
        /\ \A y \in Flags \ {"complex_uri"} : qc.flag[y] = r.flag[y]
    BY <1>1, FlagPut, FlagsAre
  <1>4. /\ Unversioned(qa) /\ qa.ptr["args_start"] = p + 1 /\ qa.flag = r.flag
        /\ \A y \in Pointers \ {"args_start"} : qa.ptr[y] = r.ptr[y]
    BY <1>1, MarkPut DEF UriMark
  <1>5. \/ ch = "%" /\ Go("uri", qq)
        \/ ch = "?" /\ Go("uri", qa)
        \/ (ch = "#" \/ (s = "after_slash_in_uri" /\ ch \in {".", "/"})) /\ Go("uri", qc)
    BY DEF UriQuits
  <1> HIDE DEF qq, qc, qa
  <1>6. "uri" \in Reading \cup Spaced
    BY DEF Reading
  <1>7. CASE ch = "%" /\ Go("uri", qq)
    <2>1. /\ qq.flag["plus_in_uri"] = r.flag["plus_in_uri"]
          /\ qq.flag["complex_uri"] = r.flag["complex_uri"]
          /\ qq.flag["space_in_uri"] = r.flag["space_in_uri"]
      BY <1>2, FlagsAre
    <2>2. Marked(buf, qq.ptr, qq.flag, "uri", p + 1)
      BY <1>1, <1>2, <1>7, <2>1, MarkedQuits DEF ch
    <2> QED
      BY <1>2, <1>6, <1>7, <2>2, MarkedGoes
  <1>8. CASE ch = "?" /\ Go("uri", qa)
    <2>1. /\ qa.ptr["uri_start"] = r.ptr["uri_start"] /\ qa.ptr["uri_ext"] = r.ptr["uri_ext"]
      BY <1>4 DEF Pointers
    <2>2. Marked(buf, qa.ptr, qa.flag, "uri", p + 1)
      BY <1>1, <1>4, <1>8, <2>1, MarkedQuits DEF ch
    <2> QED
      BY <1>4, <1>6, <1>8, <2>2, MarkedGoes
  <1>9. CASE (ch = "#" \/ (s = "after_slash_in_uri" /\ ch \in {".", "/"})) /\ Go("uri", qc)
    <2>1. /\ qc.flag["plus_in_uri"] = r.flag["plus_in_uri"]
          /\ qc.flag["quoted_uri"] = r.flag["quoted_uri"]
          /\ qc.flag["space_in_uri"] = r.flag["space_in_uri"]
      BY <1>3, FlagsAre
    <2>2. Marked(buf, qc.ptr, qc.flag, "uri", p + 1)
      BY <1>1, <1>3, <1>9, <2>1, MarkedQuits DEF ch
    <2> QED
      BY <1>3, <1>6, <1>9, <2>2, MarkedGoes
  <1> QED
    BY <1>5, <1>7, <1>8, <1>9

(* A byte in a part of the path, or a plus sign *)
LEMMA UriPlainNote ==
  ASSUME LineInv, ReadInv, TellInv, NoteInv,
         NEW s \in {"after_slash_in_uri", "check_uri"}, At(s),
         \/ ch \notin Unusual /\ Go("check_uri", r)
         \/ ch = "+" /\ Go(s, Flag(r, "plus_in_uri"))
  PROVE  NoteInv'
  <1> DEFINE q == Flag(r, "plus_in_uri")
  <1>1. /\ Marked(buf, r.ptr, r.flag, s, p) /\ r.ptr["uri_start"] < p /\ r.ptr \in Ptrs
        /\ Unversioned(r) /\ p \in Nat
    BY MarkedHere DEF Reading
  <1>2. /\ Unversioned(q) /\ q.ptr = r.ptr /\ q.flag["plus_in_uri"] = TRUE
        /\ \A y \in Flags \ {"plus_in_uri"} : q.flag[y] = r.flag[y]
    BY <1>1, FlagPut, FlagsAre
  <1> HIDE DEF q
  <1>3. {"after_slash_in_uri", "check_uri"} \subseteq Reading \cup Spaced
    BY DEF Reading
  <1>4. CASE ch \notin Unusual /\ Go("check_uri", r)
    <2>1. ch \notin {"?", "%", "#", ".", "/", "+", SP}
      BY <1>4, FlagsAre
    <2>2. Marked(buf, r.ptr, r.flag, "check_uri", p + 1)
      BY <1>1, <2>1, MarkedOn DEF ch
    <2> QED
      BY <1>1, <1>3, <1>4, <2>2, MarkedGoes
  <1>5. CASE ch = "+" /\ Go(s, q)
    <2>1. /\ q.flag["complex_uri"] = r.flag["complex_uri"]
          /\ q.flag["quoted_uri"] = r.flag["quoted_uri"]
          /\ q.flag["space_in_uri"] = r.flag["space_in_uri"]
      BY <1>2, FlagsAre
    <2>2. Marked(buf, q.ptr, q.flag, s, p + 1)
      BY <1>1, <1>2, <1>5, <2>1, MarkedOn, FlagsAre DEF ch
    <2> QED
      BY <1>2, <1>3, <1>5, <2>2, MarkedGoes
  <1> QED
    BY <1>4, <1>5 DEF q

LEMMA AfterSlashNotes == ASSUME LineInv, ReadInv, TellInv, NoteInv, AfterSlashInUri PROVE NoteInv'
  <1>1. /\ At("after_slash_in_uri") /\ "after_slash_in_uri" \in Reading
        /\ \/ ch \notin Unusual /\ Go("check_uri", r)
           \/ UriEnds("check_uri_http_09")
           \/ UriQuits
           \/ ch \in {".", "/"} /\ Go("uri", Flag(r, "complex_uri"))
           \/ ch = "+" /\ Go("after_slash_in_uri", Flag(r, "plus_in_uri"))
    BY DEF AfterSlashInUri, Reading
  <1>2. CASE UriEnds("check_uri_http_09")
    BY <1>1, <1>2, UriEndsNote
  <1> QED
    BY <1>1, <1>2, UriQuitsNote, UriPlainNote

LEMMA CheckUriNotes == ASSUME LineInv, ReadInv, TellInv, NoteInv, CheckUri PROVE NoteInv'
  <1> DEFINE q0 == Point(r, "uri_ext", 0)
             q1 == Point(r, "uri_ext", p + 1)
  <1>1. /\ At("check_uri") /\ {"check_uri", "after_slash_in_uri"} \subseteq Reading
        /\ \/ ch \notin Unusual /\ Go("check_uri", r)
           \/ UriEnds("check_uri_http_09")
           \/ UriQuits
           \/ ch = "/" /\ Go("after_slash_in_uri", q0)
           \/ ch = "." /\ Go("check_uri", q1)
           \/ ch = "+" /\ Go("check_uri", Flag(r, "plus_in_uri"))
    BY DEF CheckUri, Reading
  <1>2. /\ Marked(buf, r.ptr, r.flag, "check_uri", p) /\ r.ptr["uri_start"] < p
        /\ r.ptr \in Ptrs /\ Unversioned(r) /\ p \in Nat /\ p + 1 \in Nat
    BY <1>1, MarkedHere
  <1>3. /\ Unversioned(q0) /\ q0.ptr["uri_ext"] = 0 /\ q0.flag = r.flag
        /\ \A y \in Pointers \ {"uri_ext"} : q0.ptr[y] = r.ptr[y]
    BY <1>2, MarkPut DEF UriMark
  <1>4. /\ Unversioned(q1) /\ q1.ptr["uri_ext"] = p + 1 /\ q1.flag = r.flag
        /\ \A y \in Pointers \ {"uri_ext"} : q1.ptr[y] = r.ptr[y]
    BY <1>2, MarkPut DEF UriMark
  <1> HIDE DEF q0, q1
  <1>5. CASE UriEnds("check_uri_http_09")
    BY <1>1, <1>5, UriEndsNote
  <1>6. CASE ch = "/" /\ Go("after_slash_in_uri", q0)
    <2>1. /\ q0.ptr["uri_start"] = r.ptr["uri_start"]
          /\ q0.ptr["args_start"] = r.ptr["args_start"]
      BY <1>3 DEF Pointers
    <2>2. Marked(buf, q0.ptr, q0.flag, "after_slash_in_uri", p + 1)
      BY <1>2, <1>3, <1>6, <2>1, MarkedOn, FlagsAre DEF ch
    <2> QED
      BY <1>1, <1>3, <1>6, <2>2, MarkedGoes
  <1>7. CASE ch = "." /\ Go("check_uri", q1)
    <2>1. /\ q1.ptr["uri_start"] = r.ptr["uri_start"]
          /\ q1.ptr["args_start"] = r.ptr["args_start"]
      BY <1>4 DEF Pointers
    <2>2. Marked(buf, q1.ptr, q1.flag, "check_uri", p + 1)
      BY <1>2, <1>4, <1>7, <2>1, MarkedOn, FlagsAre DEF ch
    <2> QED
      BY <1>1, <1>4, <1>7, <2>2, MarkedGoes
  <1> QED
    BY <1>1, <1>5, <1>6, <1>7, UriQuitsNote, UriPlainNote

LEMMA UriNotes == ASSUME LineInv, ReadInv, TellInv, NoteInv, Uri PROVE NoteInv'
  <1> DEFINE q == Flag(r, "complex_uri")
  <1>1. /\ At("uri") /\ "uri" \in Reading
        /\ \/ ch \notin {SP, CR, LF, NUL, "#"} /\ Go("uri", r)
           \/ UriEnds("http_09")
           \/ ch = "#" /\ Go("uri", q)
    BY DEF Uri, Reading
  <1>2. /\ Marked(buf, r.ptr, r.flag, "uri", p) /\ r.ptr["uri_start"] < p
        /\ r.ptr \in Ptrs /\ Unversioned(r) /\ p \in Nat
    BY <1>1, MarkedHere
  <1>3. /\ Unversioned(q) /\ q.ptr = r.ptr /\ q.flag["complex_uri"] = TRUE
        /\ \A y \in Flags \ {"complex_uri"} : q.flag[y] = r.flag[y]
    BY <1>2, FlagPut, FlagsAre
  <1> HIDE DEF q
  <1>4. CASE UriEnds("http_09")
    BY <1>1, <1>4, UriEndsNote
  <1>5. CASE ch \notin {SP, CR, LF, NUL, "#"} /\ Go("uri", r)
    <2>1. Marked(buf, r.ptr, r.flag, "uri", p + 1)
      BY <1>2, <1>5, MarkedUri DEF ch
    <2> QED
      BY <1>1, <1>2, <1>5, <2>1, MarkedGoes
  <1>6. CASE ch = "#" /\ Go("uri", q)
    <2>1. /\ q.flag["plus_in_uri"] = r.flag["plus_in_uri"]
          /\ q.flag["quoted_uri"] = r.flag["quoted_uri"]
          /\ q.flag["space_in_uri"] = r.flag["space_in_uri"]
      BY <1>3, FlagsAre
    <2>2. Marked(buf, q.ptr, q.flag, "uri", p + 1)
      BY <1>2, <1>3, <1>6, <2>1, MarkedUri, FlagsAre DEF ch
    <2> QED
      BY <1>1, <1>3, <1>6, <2>2, MarkedGoes
  <1> QED
    BY <1>1, <1>4, <1>5, <1>6

-----------------------------------------------------------------------------
(* After the URI *)

LEMMA UriNotEmpty ==
  ASSUME NEW u, NEW f, NEW s \in AfterUri, NEW c, Known(u, f, s, c)
  PROVE  f["uri_start"] < f["uri_end"]
  <1>1. CASE NoPath(f)
    <2>1. /\ f["uri_end"] = f["schema_end"] + 2 /\ f["uri_start"] = f["schema_end"] + 1
      BY <1>1 DEF Known, Meant, Pathed, NoPath
    <2>2. f["schema_end"] \in Nat
      BY DEF Known, Ptrs, Pointers
    <2> QED
      BY <2>1, <2>2
  <1>2. CASE ~ NoPath(f)
    BY <1>2 DEF Known, Meant, Cut
  <1> QED
    BY <1>1, <1>2

(* What is known when a byte after the URI is looked at *)
LEMMA AfterHere ==
  ASSUME LineInv, ReadInv, TellInv, NoteInv, NEW s \in AfterUri, At(s)
  PROVE  /\ Marked(buf, r.ptr, r.flag, s, p) /\ r.ptr["uri_start"] < r.ptr["uri_end"]
         /\ r.ptr \in Ptrs /\ r \in Requests /\ p \in Nat \ {0} /\ r.ptr["request_end"] = 0
         /\ \A t : t = s \/ t \in Protocol => Marked(buf, r.ptr, r.flag, t, p + 1)
         /\ s \notin Protocol => Unversioned(r)
         /\ Versioned(buf, r.ptr["http_protocol"], r.major, r.minor, s, p)
  <1>1. s \in States
    BY StatesAre
  <1>2. /\ Notes(buf, r, s, p) /\ Known(buf, r.ptr, s, p) /\ r \in Requests /\ r.ptr \in Ptrs
        /\ p \in Nat \ {0} /\ r.ptr["request_end"] = 0
        /\ s \notin Protocol => r.ptr["http_protocol"] = 0
    BY <1>1, NotesHere
  <1>3. r.ptr["uri_start"] < r.ptr["uri_end"]
    BY <1>2, UriNotEmpty
  <1>4. Marked(buf, r.ptr, r.flag, s, p)
    BY <1>2 DEF Notes
  <1>5. ASSUME NEW t, t = s \/ t \in Protocol PROVE Marked(buf, r.ptr, r.flag, t, p + 1)
    BY <1>2, <1>3, <1>4, <1>5, MarkedAfter
  <1>6. s \notin Protocol => r.major = 0 /\ r.minor = 0
    BY <1>2 DEF Notes, Versioned, Counted, Minor, Protocol
  <1> QED
    BY <1>2, <1>3, <1>4, <1>5, <1>6 DEF Unversioned, Notes

LEMMA SpacesNote ==
  ASSUME LineInv, ReadInv, TellInv, NoteInv, NEW s \in Spaced, At(s), Spaces(s)
  PROVE  NoteInv'
  <1> DEFINE q == Point(r, "http_protocol", p)
  <1>1. s \in AfterUri /\ s \notin Protocol /\ {"H", "almost_done"} \subseteq Protocol
    BY DEF Spaced, AfterUri, Protocol
  <1>2. /\ r \in Requests /\ p \in Nat \ {0} /\ r.ptr["request_end"] = 0 /\ Unversioned(r)
        /\ Marked(buf, r.ptr, r.flag, s, p + 1) /\ Marked(buf, r.ptr, r.flag, "H", p + 1)
        /\ Marked(buf, r.ptr, r.flag, "almost_done", p + 1)
    BY <1>1, AfterHere
  <1>3. \/ Go(s, r) \/ Ends09(r)
        \/ ch = "H" /\ Go("H", q)
    BY DEF Spaces
  <1>4. CASE Go(s, r)
    <2>1. s \in Reading \cup Spaced
      OBVIOUS
    <2> QED
      BY <1>2, <1>4, <2>1, MarkedGoes
  <1>5. CASE Ends09(r)
    BY <1>2, <1>5, MarkedEnd09
  <1>6. CASE ch = "H" /\ Go("H", q)
    <2>1. q \in Requests /\ q.ptr = [r.ptr EXCEPT !["http_protocol"] = p]
      BY <1>2, PointFacts DEF Pointers
    <2>2. q.flag = r.flag /\ q.major = r.major /\ q.minor = r.minor
      BY <1>2 DEF Point, Requests
    <2> HIDE DEF q
    <2>3. /\ q.ptr["http_protocol"] = p
          /\ \A x \in NotePtr \ {"http_protocol"} : q.ptr[x] = r.ptr[x]
      BY <1>2, <2>1 DEF Requests, Ptrs, Pointers, NotePtr
    <2>4. Marked(buf, q.ptr, q.flag, "H", p + 1)
      BY <1>2, <2>2, <2>3, MarkedSame
    <2>5. Versioned(buf, p, 0, 0, "H", p + 1)
      BY <1>2, <1>6, VersionBegins DEF ch
    <2>6. Notes(buf, q, "H", p + 1) /\ "H" \in States
      BY <1>2, <2>2, <2>3, <2>4, <2>5 DEF Notes, Unversioned, States
    <2>7. Jots(q)
      BY <1>6, <2>6 DEF Jots
    <2> QED
      BY <2>7, JotsNote
  <1> QED
    BY <1>3, <1>4, <1>5, <1>6

LEMMA AfterUriNotes ==
  ASSUME LineInv, ReadInv, TellInv, NoteInv, HostHttp09 \/ CheckUriHttp09 \/ Http09
  PROVE  NoteInv'
  <1> DEFINE q == Flag(r, "space_in_uri")
  <1>1. /\ Spaced \subseteq States /\ Spaced \subseteq AfterUri /\ Spaced \cap Protocol = {}
        /\ {"check_uri", "uri"} \subseteq States \ Protocol
    BY DEF Spaced, States, AfterUri, Protocol
  <1>2. PICK s \in Spaced :
          /\ At(s)
          /\ \/ Spaces(s) \/ Fail("INVALID_REQUEST", r)
             \/ s = "check_uri_http_09" /\ GoSame("check_uri", q)
             \/ s = "http_09" /\ GoSame("uri", q)
    BY DEF HostHttp09, CheckUriHttp09, Http09, Invalid, Spaced
  <1>3. /\ Marked(buf, r.ptr, r.flag, s, p) /\ r.ptr["uri_start"] < r.ptr["uri_end"]
        /\ r.ptr \in Ptrs /\ Unversioned(r) /\ p \in Nat
    BY <1>1, <1>2, AfterHere
  <1>4. /\ Unversioned(q) /\ q.ptr = r.ptr /\ q.flag["space_in_uri"] = TRUE
        /\ \A y \in Flags \ {"space_in_uri"} : q.flag[y] = r.flag[y]
    BY <1>3, FlagPut, FlagsAre
  <1> HIDE DEF q
  <1>5. /\ q.flag["plus_in_uri"] = r.flag["plus_in_uri"]
        /\ q.flag["complex_uri"] = r.flag["complex_uri"]
        /\ q.flag["quoted_uri"] = r.flag["quoted_uri"]
    BY <1>4, FlagsAre
  <1>6. s # "host_http_09" =>
          r.ptr["uri_end"] < p /\ All(buf, r.ptr["uri_end"], p - 1, {SP})
    <2> SUFFICES ASSUME s # "host_http_09"
                 PROVE  r.ptr["uri_end"] < p /\ All(buf, r.ptr["uri_end"], p - 1, {SP})
      OBVIOUS
    <2>1. Known(buf, r.ptr, s, p)
      BY <1>1, <1>2, KnownHere
    <2>2. InSpaces(buf, r.ptr, s, p)
      BY <2>1, SpacedFacts
    <2>3. All(buf, r.ptr["uri_end"], p - 1, {SP})
      BY <2>2 DEF InSpaces
    <2>4. Place(r.ptr, s, p)
      BY <1>1, <1>2, Here
    <2>5. r.ptr["uri_end"] < p
      BY <1>1, <2>4 DEF Place, UriPlace
    <2> QED
      BY <2>3, <2>5
  <1>7. /\ s = "check_uri_http_09" => Marked(buf, q.ptr, q.flag, "check_uri", p)
        /\ s = "http_09" => Marked(buf, q.ptr, q.flag, "uri", p)
    BY <1>3, <1>4, <1>5, <1>6, MarkedBack
  <1>8. CASE Spaces(s)
    BY <1>2, <1>8, SpacesNote
  <1>9. CASE s = "check_uri_http_09" /\ GoSame("check_uri", q)
    <2>1. Notes(buf, q, "check_uri", p)
      BY <1>1, <1>4, <1>7, <1>9, MarkedNotes
    <2>2. Jots(q)
      BY <1>1, <1>9, <2>1 DEF Jots
    <2> QED
      BY <1>2, <2>2, JotsNote
  <1>10. CASE s = "http_09" /\ GoSame("uri", q)
    <2>1. Notes(buf, q, "uri", p)
      BY <1>1, <1>4, <1>7, <1>10, MarkedNotes
    <2>2. Jots(q)
      BY <1>1, <1>10, <2>1 DEF Jots
    <2> QED
      BY <1>2, <2>2, JotsNote
  <1>11. CASE Fail("INVALID_REQUEST", r)
    BY <1>2, <1>11, JotsNote DEF Jots
  <1> QED
    BY <1>2, <1>8, <1>9, <1>10, <1>11

-----------------------------------------------------------------------------
(* In the protocol *)

(* A byte of it, after which q has the version as far as it goes *)
LEMMA VersionGoes ==
  ASSUME LineInv, ReadInv, TellInv, NoteInv, NEW s \in Protocol, At(s),
         NEW q \in Requests, q.ptr = r.ptr, q.flag = r.flag, NEW t \in Protocol,
         Versioned(buf, r.ptr["http_protocol"], q.major, q.minor, t, p + 1),
         Go(t, q) \/ (t = "almost_done" /\ Done(q))
  PROVE  NoteInv'
  <1>1. s \in AfterUri /\ t \in States
    BY DEF AfterUri, Protocol, States
  <1>2. Marked(buf, q.ptr, q.flag, t, p + 1) /\ q.ptr["request_end"] = 0
    BY <1>1, AfterHere
  <1>3. Notes(buf, q, t, p + 1)
    BY <1>2 DEF Notes
  <1>4. EndOf(q) = p
    BY <1>2 DEF EndOf
  <1>5. Jots(q)
    BY <1>1, <1>3, <1>4 DEF Jots
  <1> QED
    BY <1>5, JotsNote

(* What is known when a byte of it is looked at *)
LEMMA VersionHere ==
  ASSUME LineInv, ReadInv, TellInv, NoteInv, NEW s \in Numbered, At(s)
  PROVE  /\ Versioned(buf, r.ptr["http_protocol"], r.major, r.minor, s, p)
         /\ r.ptr["http_protocol"] \in Nat \ {0} /\ p \in Nat \ {0} /\ r \in Requests
         /\ s \in Protocol
  <1>1. s \in States /\ s \in Protocol
    BY DEF Numbered, Protocol, States
  <1> QED
    BY <1>1, NotesHere DEF Notes

LEMMA LettersNote ==
  ASSUME LineInv, ReadInv, TellInv, NoteInv, HttpH \/ HttpHT \/ HttpHTT \/ HttpHTTP
  PROVE  NoteInv'
  <1>1. PICK s, t :
          /\ <<s, t>> \in {<<"H", "HT">>, <<"HT", "HTT">>, <<"HTT", "HTTP">>,
                           <<"HTTP", "first_major_digit">>}
          /\ At(s) /\ ((ch # "." /\ Go(t, r)) \/ Fail("INVALID_REQUEST", r))
    BY DEF HttpH, HttpHT, HttpHTT, HttpHTTP, Expect, Invalid
  <1>2. s \in Numbered /\ t \in Protocol
    BY <1>1 DEF Numbered, Protocol
  <1>3. /\ Versioned(buf, r.ptr["http_protocol"], r.major, r.minor, s, p)
        /\ r.ptr["http_protocol"] \in Nat /\ p \in Nat \ {0} /\ r \in Requests /\ s \in Protocol
    BY <1>1, <1>2, VersionHere
  <1>4. ch # "." => Versioned(buf, r.ptr["http_protocol"], r.major, r.minor, t, p + 1)
    BY <1>1, <1>3, VersionLetters DEF ch
  <1>5. CASE ch # "." /\ Go(t, r)
    BY <1>1, <1>2, <1>3, <1>4, <1>5, VersionGoes
  <1>6. CASE Fail("INVALID_REQUEST", r)
    BY <1>1, <1>6, JotsNote DEF Jots
  <1> QED
    BY <1>1, <1>5, <1>6

(* A digit, with the number it belongs to *)
LEMMA MajorPut ==
  ASSUME NEW q \in Requests, NEW v \in 0 .. WordMod - 1
  PROVE  /\ [q EXCEPT !.major = v] \in Requests /\ [q EXCEPT !.major = v].ptr = q.ptr
         /\ [q EXCEPT !.major = v].flag = q.flag
         /\ [q EXCEPT !.major = v].major = v /\ [q EXCEPT !.major = v].minor = q.minor
  BY DEF Requests

LEMMA MinorPut ==
  ASSUME NEW q \in Requests, NEW v \in 0 .. WordMod - 1
  PROVE  /\ [q EXCEPT !.minor = v] \in Requests /\ [q EXCEPT !.minor = v].ptr = q.ptr
         /\ [q EXCEPT !.minor = v].flag = q.flag
         /\ [q EXCEPT !.minor = v].minor = v /\ [q EXCEPT !.minor = v].major = q.major
  BY DEF Requests

LEMMA DigitFits ==
  ASSUME NEW d \in Digit, NEW v \in 0 .. WordMod - 1
  PROVE  Value(d) \in 0 .. WordMod - 1 /\ Shifted(v, d) \in 0 .. WordMod - 1
  <1>1. Value(d) \in 0 .. 9 /\ WordMod \in Nat /\ WordMod >= 10
    BY ValueFacts, BufAssumption
  <1>2. v * 10 + Value(d) \in Nat
    BY <1>1
  <1> QED
    BY <1>1, <1>2 DEF Shifted

LEMMA MajorNotes ==
  ASSUME LineInv, ReadInv, TellInv, NoteInv, FirstMajorDigit \/ MajorDigit
  PROVE  NoteInv'
  <1> DEFINE h == r.ptr["http_protocol"]
             v1 == Value(ch)
             v2 == Shifted(r.major, ch)
             q1 == [r EXCEPT !.major = v1]
             q2 == [r EXCEPT !.major = v2]
  <1>1. /\ {"first_major_digit", "major_digit"} \subseteq Numbered
        /\ {"major_digit", "first_minor_digit"} \subseteq Protocol
    BY DEF Numbered, Protocol
  <1>2. PICK s \in {"first_major_digit", "major_digit"} :
          /\ At(s)
          /\ \/ s = "first_major_digit" /\ ch \in Digit /\ Go("major_digit", q1)
             \/ s = "major_digit" /\ ch \in Digit /\ Go("major_digit", q2)
             \/ s = "major_digit" /\ ch = "." /\ Go("first_minor_digit", r)
             \/ Fail("INVALID_REQUEST", r)
    BY DEF FirstMajorDigit, MajorDigit, Invalid
  <1>3. /\ Versioned(buf, h, r.major, r.minor, s, p) /\ h \in Nat /\ p \in Nat \ {0}
        /\ r \in Requests /\ s \in Protocol /\ r.major \in 0 .. WordMod - 1
    BY <1>1, <1>2, VersionHere DEF Requests
  <1> HIDE DEF h
  <1>4. CASE s = "first_major_digit" /\ ch \in Digit /\ Go("major_digit", q1)
    <2>1. v1 \in 0 .. WordMod - 1
      BY <1>3, <1>4, DigitFits
    <2>2. Versioned(buf, h, v1, r.minor, "major_digit", p + 1)
      BY <1>3, <1>4, VersionMajor DEF ch
    <2> HIDE DEF v1
    <2>3. /\ q1 \in Requests /\ q1.ptr = r.ptr /\ q1.flag = r.flag /\ q1.major = v1
          /\ q1.minor = r.minor
      BY <1>3, <2>1, MajorPut
    <2> HIDE DEF q1
    <2> QED
      BY <1>1, <1>2, <1>3, <1>4, <2>2, <2>3, VersionGoes DEF h
  <1>5. CASE s = "major_digit" /\ ch \in Digit /\ Go("major_digit", q2)
    <2>1. v2 \in 0 .. WordMod - 1
      BY <1>3, <1>5, DigitFits
    <2>2. Versioned(buf, h, v2, r.minor, "major_digit", p + 1)
      BY <1>3, <1>5, VersionMajor DEF ch
    <2> HIDE DEF v2
    <2>3. /\ q2 \in Requests /\ q2.ptr = r.ptr /\ q2.flag = r.flag /\ q2.major = v2
          /\ q2.minor = r.minor
      BY <1>3, <2>1, MajorPut
    <2> HIDE DEF q2
    <2> QED
      BY <1>1, <1>2, <1>3, <1>5, <2>2, <2>3, VersionGoes DEF h
  <1>6. CASE s = "major_digit" /\ ch = "." /\ Go("first_minor_digit", r)
    <2>1. Versioned(buf, h, r.major, r.minor, "first_minor_digit", p + 1)
      BY <1>3, <1>6, VersionDot DEF ch
    <2> QED
      BY <1>1, <1>2, <1>3, <1>6, <2>1, VersionGoes DEF h
  <1>7. CASE Fail("INVALID_REQUEST", r)
    BY <1>2, <1>7, JotsNote DEF Jots
  <1> QED
    BY <1>2, <1>4, <1>5, <1>6, <1>7

LEMMA MinorNotes ==
  ASSUME LineInv, ReadInv, TellInv, NoteInv,
         FirstMinorDigit \/ MinorDigit \/ SpacesAfterDigit
  PROVE  NoteInv'
  <1> DEFINE h == r.ptr["http_protocol"]
             v1 == Value(ch)
             v2 == Shifted(r.minor, ch)
             q1 == [r EXCEPT !.minor = v1]
             q2 == [r EXCEPT !.minor = v2]
  <1>1. /\ {"first_minor_digit", "minor_digit", "spaces_after_digit"} \subseteq Numbered
        /\ {"minor_digit", "spaces_after_digit", "almost_done"} \subseteq Protocol
    BY DEF Numbered, Protocol
  <1>2. PICK s \in {"first_minor_digit", "minor_digit", "spaces_after_digit"} :
          /\ At(s)
          /\ \/ s = "first_minor_digit" /\ ch \in Digit /\ Go("minor_digit", q1)
             \/ s = "minor_digit" /\ ch \in Digit /\ Go("minor_digit", q2)
             \/ /\ s # "first_minor_digit" /\ ch \in AfterDigits
                /\ \E t \in {"spaces_after_digit", "almost_done"} :
                     Go(t, r) \/ (t = "almost_done" /\ Done(r))
             \/ Fail("INVALID_REQUEST", r)
    <2>1. CASE FirstMinorDigit
      BY <2>1 DEF FirstMinorDigit, Invalid
    <2>2. CASE MinorDigit
      BY <2>2 DEF MinorDigit, Invalid, AfterDigits
    <2>3. CASE SpacesAfterDigit
      BY <2>3 DEF SpacesAfterDigit, Invalid, AfterDigits
    <2> QED
      BY <2>1, <2>2, <2>3
  <1>3. /\ Versioned(buf, h, r.major, r.minor, s, p) /\ h \in Nat \ {0} /\ h \in Nat
        /\ p \in Nat \ {0} /\ r \in Requests /\ s \in Protocol /\ r.minor \in 0 .. WordMod - 1
    BY <1>1, <1>2, VersionHere DEF Requests
  <1> HIDE DEF h
  <1>4. CASE s = "first_minor_digit" /\ ch \in Digit /\ Go("minor_digit", q1)
    <2>1. v1 \in 0 .. WordMod - 1
      BY <1>3, <1>4, DigitFits
    <2>2. Versioned(buf, h, r.major, v1, "minor_digit", p + 1)
      BY <1>3, <1>4, VersionMinor DEF ch
    <2> HIDE DEF v1
    <2>3. /\ q1 \in Requests /\ q1.ptr = r.ptr /\ q1.flag = r.flag /\ q1.minor = v1
          /\ q1.major = r.major
      BY <1>3, <2>1, MinorPut
    <2> HIDE DEF q1
    <2> QED
      BY <1>1, <1>2, <1>3, <1>4, <2>2, <2>3, VersionGoes DEF h
  <1>5. CASE s = "minor_digit" /\ ch \in Digit /\ Go("minor_digit", q2)
    <2>1. v2 \in 0 .. WordMod - 1
      BY <1>3, <1>5, DigitFits
    <2>2. Versioned(buf, h, r.major, v2, "minor_digit", p + 1)
      BY <1>3, <1>5, VersionMinor DEF ch
    <2> HIDE DEF v2
    <2>3. /\ q2 \in Requests /\ q2.ptr = r.ptr /\ q2.flag = r.flag /\ q2.minor = v2
          /\ q2.major = r.major
      BY <1>3, <2>1, MinorPut
    <2> HIDE DEF q2
    <2> QED
      BY <1>1, <1>2, <1>3, <1>5, <2>2, <2>3, VersionGoes DEF h
  <1>6. ASSUME s # "first_minor_digit", ch \in AfterDigits,
               NEW t \in {"spaces_after_digit", "almost_done"},
               Go(t, r) \/ (t = "almost_done" /\ Done(r))
        PROVE  NoteInv'
    <2>1. Versioned(buf, h, r.major, r.minor, t, p + 1)
      BY <1>2, <1>3, <1>6, VersionEnds DEF ch
    <2>2. t \in Protocol
      BY <1>1
    <2> QED
      BY <1>2, <1>3, <1>6, <2>1, <2>2, VersionGoes DEF h
  <1>7. CASE Fail("INVALID_REQUEST", r)
    BY <1>2, <1>7, JotsNote DEF Jots
  <1> QED
    BY <1>2, <1>4, <1>5, <1>6, <1>7

LEMMA AlmostDoneNotes == ASSUME LineInv, ReadInv, TellInv, NoteInv, AlmostDone PROVE NoteInv'
  <1> DEFINE q == Point(r, "request_end", p - 1)
  <1>1. At("almost_done") /\ "almost_done" \in States /\ "request_end" \in Pointers
    BY DEF AlmostDone, States, Pointers
  <1>2. /\ Notes(buf, r, "almost_done", p) /\ r \in Requests /\ r.ptr \in Ptrs
        /\ p \in Nat \ {0} /\ p - 1 \in Nat
    BY <1>1, NotesHere
  <1>3. p - 1 # 0
    BY <1>1, Here, EndsAtCr
  <1>4. q \in Requests /\ q.ptr = [r.ptr EXCEPT !["request_end"] = p - 1]
    BY <1>1, <1>2, PointFacts
  <1>5. q.flag = r.flag /\ q.major = r.major /\ q.minor = r.minor
    BY <1>2 DEF Point, Requests
  <1>6. Done(q) \/ Fail("INVALID_REQUEST", q)
    BY DEF AlmostDone, Invalid
  <1> HIDE DEF q
  <1>7. EndOf(q) + 1 = p
    BY <1>1, <1>2, <1>3, <1>4 DEF EndOf, Ptrs
  <1>8. \A x \in NotePtr : q.ptr[x] = r.ptr[x]
    BY <1>2, <1>4 DEF NotePtr, Ptrs, Pointers
  <1>9. Notes(buf, q, "almost_done", EndOf(q) + 1)
    BY <1>2, <1>5, <1>7, <1>8, NotesSame
  <1>10. Jots(q)
    BY <1>4, <1>6, <1>9 DEF Jots
  <1> QED
    BY <1>1, <1>10, JotsNote

LEMMA StepNotes == ASSUME LineInv, ReadInv, TellInv, NoteInv, Step PROVE NoteInv'
  BY StartNotes, MethodNotes, SchemaNotes, HostNotes, AfterUriNotes, AfterSlashNotes,
     CheckUriNotes, UriNotes, LettersNote, MajorNotes, MinorNotes, AlmostDoneNotes, Zenon
  DEF Step

-----------------------------------------------------------------------------
(* Bytes that come later do not change what is noted. *)

LEMMA SlashAlike ==
  ASSUME NEW u, NEW x, NEW c, Alike(u, x, c), NEW a \in Nat \ {0}, NEW i \in Nat, i <= c
  PROVE  AfterSlash(u, a, i) <=> AfterSlash(x, a, i)
  BY DEF Alike, AfterSlash, All

LEMMA QuitsAlike ==
  ASSUME NEW u, NEW x, NEW c, Alike(u, x, c), NEW a \in Nat \ {0}, NEW i \in Nat, a <= i, i < c
  PROVE  x[i] = u[i] /\ (Quits(u, a, i) <=> Quits(x, a, i))
  <1>1. x[i] = u[i]
    BY DEF Alike
  <1>2. i <= c
    BY DEF Alike
  <1>3. AfterSlash(u, a, i) <=> AfterSlash(x, a, i)
    BY <1>2, SlashAlike
  <1> QED
    BY <1>1, <1>3 DEF Quits

LEMMA SpaceAlike ==
  ASSUME NEW u, NEW x, NEW c, Alike(u, x, c), NEW a \in Nat \ {0}, NEW e \in Nat, e <= c
  PROVE  HasSpace(u, a, e) <=> HasSpace(x, a, e)
  BY DEF Alike, HasSpace

LEMMA ExtAlike ==
  ASSUME NEW u, NEW x, NEW c, Alike(u, x, c), NEW a \in Nat \ {0}, NEW k \in Nat, k <= c,
         NEW y \in Nat, Ext(u, a, k, y)
  PROVE  Ext(x, a, k, y)
  <1>1. \A i \in a .. k - 1 : x[i] = u[i]
    BY DEF Alike
  <1>2. CASE y = 0
    <2> SUFFICES ASSUME NEW i \in a + 1 .. k - 1, x[i] = "."
                 PROVE  \E j \in i .. k - 1 : x[j] = "/"
      BY <1>2 DEF Ext
    <2>1. u[i] = "."
      BY <1>1
    <2>2. PICK j \in i .. k - 1 : u[j] = "/"
      BY <1>2, <2>1 DEF Ext
    <2>3. x[j] = "/"
      BY <1>1, <2>2
    <2> QED
      BY <2>3
  <1>3. CASE y # 0
    BY <1>1, <1>3 DEF Ext, Free
  <1> QED
    BY <1>2, <1>3

LEMMA NotedAlike ==
  ASSUME NEW u, NEW x, NEW c, Alike(u, x, c), NEW a \in Nat \ {0}, NEW e \in Nat, e <= c,
         NEW f \in Ptrs, NEW g, NEW k, Noted(u, f, g, a, k, e)
  PROVE  Noted(x, f, g, a, k, e)
  <1>1. k \in a + 1 .. e /\ k \in Nat /\ f["uri_ext"] \in Nat /\ c \in Nat /\ k <= c
    BY DEF Noted, Ptrs, Pointers, Alike
  <1>2. \A i \in a .. e - 1 : x[i] = u[i] /\ (Quits(u, a, i) <=> Quits(x, a, i))
    BY <1>1, QuitsAlike
  <1>3. Ext(x, a, k, f["uri_ext"])
    BY <1>1, ExtAlike DEF Noted
  <1>4. /\ k < e => Quits(x, a, k) /\ x[k] = u[k]
        /\ \A i \in a + 1 .. k - 1 : ~ Quits(x, a, i)
    BY <1>1, <1>2 DEF Noted
  <1>5. g["plus_in_uri"] <=> \E i \in a .. k - 1 : x[i] = "+"
    BY <1>1, <1>2 DEF Noted
  <1>6. (\E i \in k .. e - 1 : x[i] = "#") <=> \E i \in k .. e - 1 : u[i] = "#"
    BY <1>1, <1>2
  <1> QED
    BY <1>1, <1>3, <1>4, <1>5, <1>6 DEF Noted

LEMMA MarkedLonger ==
  ASSUME NEW u, NEW x, NEW c, Alike(u, x, c), NEW f \in Ptrs, NEW g, NEW s,
         s \in Reading \cup AfterUri => 1 <= f["uri_start"],
         s \in AfterUri => f["uri_end"] <= c,
         Marked(u, f, g, s, c)
  PROVE  Marked(x, f, g, s, c)
  <1> DEFINE a == f["uri_start"]
             e == f["uri_end"]
  <1>1. a \in Nat /\ e \in Nat /\ c \in Nat /\ c <= c
    BY DEF Ptrs, Pointers, Alike
  <1>2. CASE s \notin Reading \cup AfterUri
    BY <1>2 DEF Marked, Reading, AfterUri, Protocol
  <1>3. CASE s \in Reading
    <2>1. a \in Nat \ {0}
      BY <1>1, <1>3
    <2>2. HasSpace(u, a, c) <=> HasSpace(x, a, c)
      BY <1>1, <2>1, SpaceAlike
    <2>3. AfterSlash(u, a, c) <=> AfterSlash(x, a, c)
      BY <1>1, <2>1, SlashAlike
    <2>4. ASSUME NEW k, Noted(u, f, g, a, k, c) PROVE Noted(x, f, g, a, k, c)
      BY <1>1, <2>1, <2>4, NotedAlike
    <2>5. s \notin AfterUri /\ s \notin Protocol \cup {"host_http_09"}
      BY <1>3 DEF Reading, AfterUri, Protocol
    <2> HIDE DEF a
    <2> QED
      BY <1>3, <2>2, <2>3, <2>4, <2>5 DEF Marked, Reading, a
  <1>4. CASE s \in AfterUri
    <2>1. a \in Nat \ {0} /\ e <= c
      BY <1>1, <1>4
    <2>2. HasSpace(u, a, e) <=> HasSpace(x, a, e)
      BY <1>1, <2>1, SpaceAlike
    <2>3. ASSUME NEW k, Noted(u, f, g, a, k, e) PROVE Noted(x, f, g, a, k, e)
      BY <1>1, <2>1, <2>3, NotedAlike
    <2>4. s \notin Reading
      BY <1>4 DEF Reading, AfterUri, Protocol
    <2> HIDE DEF a, e
    <2> QED
      BY <1>4, <2>2, <2>3, <2>4 DEF Marked, Reading, a, e
  <1> QED
    BY <1>2, <1>3, <1>4

LEMMA NotesLonger ==
  ASSUME NEW u, NEW x, NEW c, Alike(u, x, c), NEW q \in Requests, NEW s,
         s \in Reading \cup AfterUri => 1 <= q.ptr["uri_start"],
         s \in AfterUri => q.ptr["uri_end"] <= c,
         s \in Numbered => q.ptr["http_protocol"] # 0,
         Notes(u, q, s, c)
  PROVE  Notes(x, q, s, c)
  <1> DEFINE h == q.ptr["http_protocol"]
  <1>1. h \in Nat /\ q.ptr \in Ptrs
    BY DEF Requests, Ptrs, Pointers
  <1>2. Marked(x, q.ptr, q.flag, s, c)
    BY <1>1, MarkedLonger DEF Notes
  <1>3. Versioned(u, h, q.major, q.minor, s, c)
    BY DEF Notes
  <1>4. s \in Numbered => h # 0
    OBVIOUS
  <1> HIDE DEF h
  <1>5. CASE h # 0
    BY <1>1, <1>3, <1>5, VersionLonger, <1>2 DEF Notes, h
  <1>6. CASE h = 0 /\ s \notin Protocol
    <2>1. q.major = 0 /\ q.minor = 0
      BY <1>3, <1>6 DEF Versioned, Counted, Minor, Protocol
    <2> QED
      BY <1>2, <1>6, <2>1, NoVersion DEF Notes, h
  <1>7. CASE h = 0 /\ s = "almost_done"
    <2>1. q.major = 0 /\ q.minor = 9
      BY <1>3, <1>7 DEF Versioned, Counted
    <2> QED
      BY <1>2, <1>7, <2>1, VersionNine DEF Notes, h
  <1> QED
    BY <1>4, <1>5, <1>6, <1>7 DEF Numbered

-----------------------------------------------------------------------------
(* Around the calls *)

LEMMA NoteStarts == Init => NoteInv /\ AnswerInv
  <1> SUFFICES ASSUME Init PROVE NoteInv /\ AnswerInv
    OBVIOUS
  <1>1. "start" \notin Protocol /\ "start" \notin Reading \cup AfterUri
    BY DEF Protocol, Reading, AfterUri
  <1>2. /\ r.ptr["http_protocol"] = 0 /\ r.major = 0 /\ r.minor = 0 /\ r.state = "start"
        /\ \A x \in Flags : ~ r.flag[x]
        /\ r.ptr["args_start"] = 0 /\ r.ptr["uri_ext"] = 0
    BY DEF Init, NewRequest, Pointers
  <1>3. Versioned(buf, 0, 0, 0, "start", pos)
    BY <1>1, NoVersion
  <1>4. Marked(buf, r.ptr, r.flag, "start", pos)
    BY <1>1, <1>2 DEF Marked, AfterUri, Reading, Protocol
  <1>5. Notes(buf, r, r.state, pos)
    BY <1>2, <1>3, <1>4 DEF Notes
  <1>6. ~ busy /\ ~ Parsed /\ answer = "none"
    BY DEF Init, Parsed
  <1> QED
    BY <1>5, <1>6 DEF NoteInv, AnswerInv

LEMMA ReceiveNotes == ASSUME LineInv, TellInv, NoteInv, Receive PROVE NoteInv'
  <1>1. PICK b \in Sends(client, Len(buf)) : buf' = Append(buf, b)
    BY DEF Receive
  <1>2. b \in Char
    BY <1>1, SentIsChar DEF LineInv, Typed
  <1>3. /\ r \in Requests /\ pos \in 1 .. Len(buf) + 1 /\ buf \in Seq(Char)
        /\ r.state \in States /\ r.ptr \in Ptrs
    BY DEF LineInv, Typed, Requests
  <1>4. /\ Notes(buf, r, r.state, pos) /\ Place(r.ptr, r.state, pos)
        /\ Meant(buf, r.ptr, r.state, pos) /\ ~ busy /\ Pending
    BY DEF NoteInv, LineInv, Places, TellInv, Receive
  <1>5. \A k \in 1 .. Len(buf) : buf'[k] = buf[k]
    BY <1>1, <1>2, <1>3
  <1>6. Alike(buf, buf', pos)
    BY <1>3, <1>5 DEF Alike
  <1>7. r.state \in Reading \cup AfterUri => 1 <= r.ptr["uri_start"]
    <2>1. r.state \in Reading \cup AfterUri => r.state # "start"
      BY DEF Reading, AfterUri, Protocol
    <2>2. r.ptr["uri_start"] \in Nat /\ r.ptr["request_start"] \in Nat
      BY <1>3 DEF Ptrs, Pointers
    <2> QED
      BY <1>4, <2>1, <2>2 DEF Place, Begun, UriPlace
  <1>8. r.state \in AfterUri => r.ptr["uri_end"] <= pos
    <2>1. r.ptr["uri_end"] \in Nat
      BY <1>3 DEF Ptrs, Pointers
    <2> QED
      BY <1>3, <1>4, <2>1 DEF Place, UriPlace
  <1>9. r.state \in Numbered => r.ptr["http_protocol"] # 0
    BY <1>4 DEF Meant, Protocoled
  <1>10. Notes(buf', r, r.state, pos)
    BY <1>3, <1>4, <1>6, <1>7, <1>8, <1>9, NotesLonger
  <1>11. UNCHANGED <<pos, busy, p, state, r, rc>>
    BY DEF Receive
  <1> QED
    BY <1>4, <1>10, <1>11 DEF NoteInv, Parsed, Pending

LEMMA EnterNotes == ASSUME LineInv, NoteInv, Enter PROVE NoteInv'
  <1>1. Notes(buf, r, r.state, pos) /\ Pending
    BY DEF NoteInv, Enter
  <1>2. /\ busy' = TRUE /\ p' = pos /\ state' = r.state
        /\ UNCHANGED <<buf, pos, r, rc>>
    BY DEF Enter, ioVars
  <1> QED
    BY <1>1, <1>2 DEF NoteInv, Parsed, Pending

LEMMA AgainNotes == ASSUME LineInv, NoteInv, Again PROVE NoteInv'
  <1>1. Notes(buf, r, state, p)
    BY DEF NoteInv, Again
  <1>2. /\ pos' = p /\ r' = [r EXCEPT !.state = state] /\ rc' = "AGAIN" /\ busy' = FALSE
        /\ buf' = buf
    BY DEF Again, ioVars
  <1>3. /\ r'.ptr = r.ptr /\ r'.state = state /\ r'.flag = r.flag /\ r'.major = r.major
        /\ r'.minor = r.minor
    BY <1>2 DEF LineInv, Typed, Requests
  <1>4. Notes(buf, r', r'.state, pos')
    BY <1>1, <1>2, <1>3 DEF Notes
  <1> QED
    BY <1>2, <1>4 DEF NoteInv, Parsed, Pending

LEMMA RestNotes == ASSUME NoteInv, UNCHANGED <<buf, pos, busy, p, state, r, rc>> PROVE NoteInv'
  BY DEF NoteInv, NineOnly, Parsed, Pending

LEMMA NextNotes == ASSUME LineInv, ReadInv, TellInv, NoteInv, [Next]_vars PROVE NoteInv'
  <1>1. CASE Step
    BY <1>1, StepNotes
  <1>2. CASE Receive
    BY <1>2, ReceiveNotes
  <1>3. CASE Enter
    BY <1>3, EnterNotes
  <1>4. CASE Again
    BY <1>4, AgainNotes
  <1>5. CASE RefuseLine \/ CopyFails \/ ProcessLine
    BY <1>5, RestNotes DEF RefuseLine, CopyFails, ProcessLine, Answer
  <1>6. CASE UNCHANGED vars
    BY <1>6, RestNotes DEF vars, ioVars
  <1> QED
    BY <1>1, <1>2, <1>3, <1>4, <1>5, <1>6 DEF Next

(* A line is not answered while it is parsed. *)
Silent == busy /\ answer' = answer

LEMMA WaysAreSilent ==
  ASSUME busy, NEW s, NEW q,
         Go(s, q) \/ GoSame(s, q) \/ Done(q) \/ Invalid(q) \/ Fail("INVALID_METHOD", q)
  PROVE  Silent
  BY DEF Go, GoSame, Done, Invalid, Fail, ioVars, Silent

LEMMA Ends09IsSilent == ASSUME busy, NEW q, Ends09(q) PROVE Silent
  BY WaysAreSilent DEF Ends09

LEMMA HostIsSilent == ASSUME busy, NEW q, InHost(q) \/ HostEnds(q) PROVE Silent
  BY WaysAreSilent DEF InHost, HostEnds

LEMMA UriIsSilent ==
  ASSUME busy, NEW t, UriEnds(t) \/ UriQuits \/ Spaces(t)
  PROVE  Silent
  BY WaysAreSilent, Ends09IsSilent DEF UriEnds, UriQuits, Spaces

LEMMA StepIsSilent == ASSUME Step PROVE Silent
  <1>1. CASE Start \/ Method \/ SpacesBeforeUri \/ Schema \/ SchemaSlash \/ SchemaSlashSlash
    BY <1>1, WaysAreSilent DEF Start, Method, SpacesBeforeUri, Schema, SchemaSlash,
       SchemaSlashSlash, Expect, At
  <1>2. CASE HostStart \/ Host \/ HostEnd \/ HostIpLiteral \/ Port
    BY <1>2, WaysAreSilent, HostIsSilent DEF HostStart, Host, HostEnd, HostIpLiteral, Port, At
  <1>3. CASE AfterSlashInUri \/ CheckUri \/ Uri
    BY <1>3, WaysAreSilent, UriIsSilent DEF AfterSlashInUri, CheckUri, Uri, At
  <1>4. CASE HostHttp09 \/ CheckUriHttp09 \/ Http09
    BY <1>4, WaysAreSilent, UriIsSilent DEF HostHttp09, CheckUriHttp09, Http09, At
  <1>5. CASE HttpH \/ HttpHT \/ HttpHTT \/ HttpHTTP
    BY <1>5, WaysAreSilent DEF HttpH, HttpHT, HttpHTT, HttpHTTP, Expect, At
  <1>6. CASE FirstMajorDigit \/ MajorDigit \/ FirstMinorDigit \/ MinorDigit
    BY <1>6, WaysAreSilent DEF FirstMajorDigit, MajorDigit, FirstMinorDigit, MinorDigit, At
  <1>7. CASE SpacesAfterDigit \/ AlmostDone
    BY <1>7, WaysAreSilent DEF SpacesAfterDigit, AlmostDone, At
  <1> QED
    BY <1>1, <1>2, <1>3, <1>4, <1>5, <1>6, <1>7, Zenon DEF Step

LEMMA NextAnswers == ASSUME LineInv, AnswerInv, [Next]_vars PROVE AnswerInv'
  <1>1. /\ busy => Pending
        /\ r.version \in Nat
    BY DEF LineInv, Places, Typed, Requests
  <1>2. Pending => answer = "none"
    BY DEF AnswerInv
  <1>3. CASE Step
    BY <1>1, <1>2, <1>3, StepIsSilent DEF Silent, AnswerInv
  <1>4. CASE Receive \/ Enter \/ Again
    <2>1. answer' = answer /\ Pending
      BY <1>1, <1>4 DEF Receive, Enter, Again, ioVars
    <2> QED
      BY <1>2, <2>1 DEF AnswerInv
  <1>5. CASE RefuseLine \/ CopyFails \/ ProcessLine
    <2>1. UNCHANGED <<r, rc>> /\ rc \notin {"none", "AGAIN"}
      BY <1>5 DEF RefuseLine, CopyFails, ProcessLine, Answer, LineRead
    <2>2. \/ answer' = "BAD_REQUEST"
          \/ rc = "OK" /\ answer' = "INTERNAL_SERVER_ERROR"
          \/ rc = "OK" /\ r.version < 1000 /\ answer' = "simple"
          \/ rc = "OK" /\ ~ (r.version < 1000) /\ answer' = "headers"
      BY <1>5 DEF RefuseLine, CopyFails, ProcessLine, Answer, Refused
    <2> QED
      BY <1>1, <2>1, <2>2 DEF AnswerInv, Pending
  <1>6. CASE UNCHANGED vars
    BY <1>6 DEF vars, ioVars, AnswerInv, Pending
  <1> QED
    BY <1>3, <1>4, <1>5, <1>6 DEF Next

-----------------------------------------------------------------------------
(* What is noted of a line is what FlagsExact, VersionFound and Routed say *)

LEMMA MaxIs ==
  ASSUME NEW S, S \subseteq Nat, NEW m \in S, \A x \in S : x <= m
  PROVE  Max(S) = m
  <1>1. \A x \in S : x = m \/ ~ (x >= m)
    OBVIOUS
  <1> QED
    BY <1>1 DEF Max

LEMMA EndInside ==
  ASSUME LineInv, ReadInv, Parsed
  PROVE  r.ptr["request_end"] \in 1 .. Len(buf)
  <1>1. Ended(buf, r.ptr, pos) /\ pos \in 1 .. Len(buf) + 1 /\ r.ptr["request_end"] \in Nat
    BY DEF ReadInv, LineInv, Typed, Requests, Ptrs, Pointers
  <1> QED
    BY <1>1 DEF Ended

LEMMA VersionIs ==
  ASSUME LineInv, ReadInv, NoteInv, Parsed
  PROVE  VersionFound
  <1> DEFINE h == r.ptr["http_protocol"]
             c == r.ptr["request_end"] + 1
  <1>1. /\ Versioned(buf, h, r.major, r.minor, "almost_done", c) /\ h \in Nat
        /\ rc = "OK" <=> ~ NineOnly(r)
    BY DEF NoteInv, Notes, LineInv, Typed, Requests, Ptrs, Pointers
  <1>2. c \in Nat /\ c <= Len(buf) + 1
    BY EndInside
  <1> HIDE DEF h, c
  <1>3. CASE h = 0
    <2>1. r.major = 0 /\ r.minor = 9
      BY <1>1, <1>3 DEF Versioned, Counted
    <2>2. rc = "OK" <=> r.method = Get
      BY <1>1, <2>1 DEF NineOnly
    <2> QED
      BY <1>3, <2>1, <2>2 DEF VersionFound, h
  <1>4. CASE h # 0
    <2>1. PICK d \in Nat, e \in Nat : Written(buf, h, r.major, r.minor, d, e) /\ e < c
      BY <1>1, <1>4 DEF Versioned, Counted
    <2>2. /\ h + 5 < d /\ First(buf, h, {"."}, d) /\ Digits(buf, h + 5, d - 1, r.major)
          /\ d + 1 < e /\ First(buf, d, AfterDigits, e) /\ Digits(buf, d + 1, e - 1, r.minor)
      BY <2>1 DEF Written, Dotted
    <2>3. d \in h .. Len(buf) /\ e \in d .. Len(buf) /\ Len(buf) \in Nat
      BY <1>1, <1>2, <2>1, <2>2 DEF LineInv, Typed
    <2>4. FirstFrom(h, {"."}) = d
      BY <1>1, <2>2, <2>3, FirstIs
    <2>5. FirstFrom(d, {SP, CR, LF}) = e
      BY <2>2, <2>3, FirstIs DEF AfterDigits
    <2>6. r.major = Numeral(h + 5, d - 1)
      <3>1. PICK g : Sums(buf, h + 5, d - 1, g) /\ r.major = g[d - 1] % WordMod
        BY <2>2 DEF Digits
      <3>2. h + 5 \in Nat \ {0} /\ d - 1 \in Nat /\ h + 5 <= d - 1
        BY <1>1, <2>2
      <3> QED
        BY <3>1, <3>2, NumeralIs
    <2>7. r.minor = Numeral(d + 1, e - 1)
      <3>1. PICK g : Sums(buf, d + 1, e - 1, g) /\ r.minor = g[e - 1] % WordMod
        BY <2>2 DEF Digits
      <3>2. d + 1 \in Nat \ {0} /\ e - 1 \in Nat /\ d + 1 <= e - 1
        BY <2>2
      <3> QED
        BY <3>1, <3>2, NumeralIs
    <2> QED
      BY <1>4, <2>4, <2>5, <2>6, <2>7 DEF VersionFound, h
  <1> QED
    BY <1>3, <1>4

LEMMA FlagsAreExact ==
  ASSUME LineInv, ReadInv, TellInv, NoteInv, Parsed
  PROVE  FlagsExact
  <1> DEFINE f == r.ptr
             first == f["uri_start"]
             last == f["uri_end"] - 1
             After(i) == \E j \in first .. i - 1 :
               buf[j] = "/" /\ \A k \in j + 1 .. i - 1 : buf[k] = "+"
             quits == {i \in first + 1 .. last :
                         \/ buf[i] \in {"?", "%", "#"}
                         \/ buf[i] \in {".", "/"} /\ After(i)}
             quit == IF quits = {} THEN last + 1 ELSE Min(quits)
             by == IF quits = {} THEN NUL ELSE buf[quit]
             dots == {i \in first + 1 .. quit - 1 :
                        buf[i] = "." /\ \A j \in i .. quit - 1 : buf[j] # "/"}
             e == f["uri_end"]
  <1>1. first \in Nat /\ e \in Nat /\ f["uri_ext"] \in Nat
    BY DEF LineInv, Typed, Requests, Ptrs, Pointers
  <1>2. /\ r.flag["space_in_uri"] <=> HasSpace(buf, first, e)
        /\ \E k \in first + 1 .. e : Noted(buf, f, r.flag, first, k, e)
    <2>1. Marked(buf, f, r.flag, "almost_done", f["request_end"] + 1)
      BY DEF NoteInv, Notes
    <2>2. "almost_done" \in AfterUri /\ "almost_done" \in Protocol
      BY DEF AfterUri, Protocol
    <2> HIDE DEF f
    <2> QED
      BY <2>1, <2>2 DEF Marked
  <1> HIDE DEF f
  <1>3. PICK k \in first + 1 .. e : Noted(buf, f, r.flag, first, k, e)
    BY <1>2
  <1>4. \A i \in Nat : After(i) <=> AfterSlash(buf, first, i)
    BY DEF AfterSlash, All
  <1> HIDE DEF After
  <1>5. quits = {i \in first + 1 .. e - 1 : Quits(buf, first, i)}
    <2>1. \A i \in first + 1 .. last : Quits(buf, first, i) <=>
            \/ buf[i] \in {"?", "%", "#"}
            \/ buf[i] \in {".", "/"} /\ After(i)
      BY <1>1, <1>4 DEF Quits
    <2> HIDE DEF first
    <2> QED
      BY <2>1
  <1>6. quit = k /\ (quits = {} <=> k = e) /\ k \in Nat
    <2>1. \A i \in first + 1 .. k - 1 : ~ Quits(buf, first, i)
      BY <1>3 DEF Noted
    <2>2. k < e => Quits(buf, first, k)
      BY <1>3 DEF Noted
    <2> HIDE DEF first, e
    <2>3. CASE k = e
      <3>1. quits = {}
        BY <1>5, <2>1, <2>3
      <3> HIDE DEF quits
      <3> QED
        BY <1>1, <2>3, <3>1 DEF e
    <2>4. CASE k # e
      <3>1. k \in quits /\ quits \subseteq Nat /\ \A i \in quits : k <= i
        BY <1>1, <1>5, <2>1, <2>2, <2>4
      <3> HIDE DEF quits
      <3>2. Min(quits) = k
        BY <3>1, MinIs
      <3> QED
        BY <1>1, <2>4, <3>1, <3>2
    <2> QED
      BY <2>3, <2>4
  <1>7. by = IF k = e THEN NUL ELSE buf[k]
    BY <1>6
  <1> HIDE DEF quits, quit, by
  <1>8. f["uri_ext"] = IF dots = {} THEN 0 ELSE Max(dots) + 1
    <2> DEFINE x == f["uri_ext"]
    <2>1. Ext(buf, first, k, x)
      BY <1>3 DEF Noted
    <2>2. dots = {i \in first + 1 .. k - 1 :
                    buf[i] = "." /\ \A j \in i .. k - 1 : buf[j] # "/"}
      BY <1>6
    <2> HIDE DEF x, dots, first
    <2>3. CASE x = 0
      <3>1. dots = {}
        BY <2>1, <2>2, <2>3 DEF Ext
      <3> QED
        BY <2>3, <3>1 DEF x
    <2>4. CASE x # 0
      <3>1. x - 1 \in first + 1 .. k - 1 /\ buf[x - 1] = "." /\ Free(buf, x, k - 1, {".", "/"})
        BY <2>1, <2>4 DEF Ext
      <3>2. x \in Nat
        BY <1>1 DEF x
      <3>3. \A j \in x - 1 .. k - 1 : buf[j] # "/"
        BY <3>1, <3>2 DEF Free
      <3>4. x - 1 \in dots
        BY <2>2, <3>1, <3>3
      <3>5. dots \subseteq Nat /\ \A i \in dots : i <= x - 1
        BY <1>1, <1>6, <2>2, <3>1, <3>2 DEF Free, first
      <3>6. Max(dots) = x - 1
        BY <3>4, <3>5, MaxIs
      <3> QED
        BY <3>2, <3>4, <3>6 DEF x
    <2> QED
      BY <2>3, <2>4
  <1>9. r.flag["space_in_uri"] <=> \E i \in first .. last : buf[i] = SP
    BY <1>2 DEF HasSpace
  <1>10. r.flag["plus_in_uri"] <=> \E i \in first .. quit - 1 : buf[i] = "+"
    BY <1>3, <1>6 DEF Noted
  <1>11. r.flag["quoted_uri"] <=> by = "%"
    BY <1>1, <1>3, <1>6, <1>7 DEF Noted, NUL
  <1>12. f["args_start"] = IF by = "?" THEN quit + 1 ELSE 0
    BY <1>1, <1>3, <1>6, <1>7 DEF Noted, NUL
  <1>13. r.flag["complex_uri"] <=>
           by \in {".", "/", "#"} \/ \E i \in quit .. last : buf[i] = "#"
    <2>1. r.flag["complex_uri"] <=>
            k < e /\ (buf[k] \in {".", "/", "#"} \/ \E i \in k .. e - 1 : buf[i] = "#")
      BY <1>3 DEF Noted
    <2> HIDE DEF first, e
    <2>2. CASE k = e
      <3>1. quit .. last = {}
        BY <1>1, <1>6, <2>2 DEF e
      <3>2. by = NUL /\ NUL \notin {".", "/", "#"}
        BY <1>7, <2>2 DEF NUL
      <3> QED
        BY <2>1, <2>2, <3>1, <3>2
    <2>3. CASE k # e
      <3>1. k < e /\ by = buf[k] /\ quit .. last = k .. e - 1
        BY <1>1, <1>6, <1>7, <2>3 DEF e
      <3> QED
        BY <2>1, <3>1
    <2> QED
      BY <2>2, <2>3
  <1> HIDE DEF dots
  <1> QED
    BY <1>8, <1>9, <1>10, <1>11, <1>12, <1>13
    DEF FlagsExact, f, first, last, After, quits, quit, by, dots

LEMMA RoutedIs ==
  ASSUME LineInv, ReadInv, NoteInv, AnswerInv
  PROVE  Routed
  <1> DEFINE protocol == r.ptr["http_protocol"]
             dot == FirstFrom(protocol, {"."})
             after == FirstFrom(dot, {SP, CR, LF})
             version == IF protocol = 0 THEN 9
                        ELSE Numeral(protocol + 5, dot - 1) * 1000 + Numeral(dot + 1, after - 1)
  <1> SUFFICES ASSUME answer # "none"
               PROVE  /\ rc # "OK" => answer = "BAD_REQUEST"
                      /\ answer = "simple" => version < 1000 /\ (version = 9 => r.method = Get)
                      /\ answer = "headers" => version >= 1000
    BY DEF Routed
  <1>1. /\ rc # "OK" => answer = "BAD_REQUEST"
        /\ answer = "simple" => r.version < 1000
        /\ answer = "headers" => r.version >= 1000
    BY DEF AnswerInv
  <1>2. CASE rc = "OK"
    <2>1. /\ r.version = r.major * 1000 + r.minor /\ ~ NineOnly(r) /\ Parsed
      BY <1>2 DEF NoteInv, Parsed
    <2>2. /\ protocol = 0 => r.major = 0 /\ r.minor = 9
          /\ protocol # 0 => /\ r.major = Numeral(protocol + 5, dot - 1)
                             /\ r.minor = Numeral(dot + 1, after - 1)
      BY <2>1, VersionIs DEF VersionFound
    <2> HIDE DEF protocol, dot, after
    <2>3. r.version = version
      <3>1. CASE protocol = 0
        BY <2>1, <2>2, <3>1
      <3>2. CASE protocol # 0
        BY <2>1, <2>2, <3>2
      <3> QED
        BY <3>1, <3>2
    <2>4. r.version = 9 => r.method = Get
      BY <2>1 DEF NineOnly
    <2> HIDE DEF version
    <2> QED
      BY <1>1, <2>3, <2>4
  <1>3. CASE rc # "OK"
    BY <1>1, <1>3
  <1> QED
    BY <1>2, <1>3

-----------------------------------------------------------------------------
(* What no state accepts, and which pointer is not set without another *)

(* A schema that has an end has a beginning. *)
Schemas(f) == f["schema_end"] # 0 => f["schema_start"] # 0

NulInv ==
  /\ busy \/ Pending \/ Parsed => Schemas(r.ptr)
  /\ busy => Free(buf, 1, p - 1, {NUL})
  /\ ~ busy /\ (Pending \/ Parsed) => Free(buf, 1, pos - 1, {NUL})

(* What a step of the parser leaves: of a request that is refused, nothing. *)
Accepts ==
  /\ buf' = buf /\ busy
  /\ \/ rc' \in {"INVALID_METHOD", "INVALID_REQUEST"} /\ ~ busy'
     \/ /\ Schemas(r.ptr)'
        /\ \/ busy' /\ p' = p
           \/ busy' /\ p' = p + 1 /\ ch # NUL
           \/ ~ busy' /\ pos' = p + 1 /\ ch # NUL

(* A request that the parser goes on with *)
Tied(q) == q \in Requests /\ Schemas(q.ptr)

LEMMA TiedPoint ==
  ASSUME NEW q, Tied(q), NEW x \in Pointers \ {"schema_start", "schema_end"}, NEW v \in Nat
  PROVE  Tied(Point(q, x, v))
  <1>1. Point(q, x, v) \in Requests /\ Point(q, x, v).ptr = [q.ptr EXCEPT ![x] = v]
    BY PointFacts DEF Tied
  <1>2. q.ptr \in Ptrs
    BY DEF Tied, Requests
  <1> QED
    BY <1>1, <1>2 DEF Tied, Schemas, Ptrs, Pointers

LEMMA TiedSet ==
  ASSUME NEW q, Tied(q)
  PROVE  /\ \A x \in Flags : Tied(Flag(q, x))
         /\ Tied(Nine(q))
         /\ \A m \in KnownMethods \cup {Unknown} : Tied([q EXCEPT !.method = m])
         /\ \A v : /\ Schemas([q EXCEPT !.major = v].ptr)
                   /\ Schemas([q EXCEPT !.minor = v].ptr)
  <1>1. q \in Requests /\ Schemas(q.ptr)
    BY DEF Tied
  <1>2. ASSUME NEW x \in Flags PROVE Tied(Flag(q, x))
    BY <1>1, FlagFacts DEF Tied
  <1>3. Tied(Nine(q))
    BY <1>1, NineFacts DEF Tied
  <1>4. ASSUME NEW m \in KnownMethods \cup {Unknown} PROVE Tied([q EXCEPT !.method = m])
    BY <1>1 DEF Tied, Requests
  <1>5. ASSUME NEW v
        PROVE  Schemas([q EXCEPT !.major = v].ptr) /\ Schemas([q EXCEPT !.minor = v].ptr)
    BY <1>1 DEF Requests
  <1> QED
    BY <1>2, <1>3, <1>4, <1>5

LEMMA GoAccepts ==
  ASSUME busy, NEW s, NEW q, Schemas(q.ptr),
         \/ Go(s, q) /\ ch # NUL
         \/ GoSame(s, q)
  PROVE  Accepts
  BY DEF Go, GoSame, ioVars, Accepts

LEMMA FailAccepts ==
  ASSUME busy, NEW q, Invalid(q) \/ Fail("INVALID_METHOD", q)
  PROVE  Accepts
  BY DEF Invalid, Fail, ioVars, Accepts

LEMMA DoneAccepts ==
  ASSUME LineInv, busy, NEW q, Tied(q), Done(q), ch # NUL
  PROVE  Accepts
  <1>1. r' \in Requests /\ r'.ptr = [q.ptr EXCEPT !["request_end"] = EndOf(q)]
    BY DoneFacts DEF Tied
  <1>2. Schemas(r.ptr)'
    BY <1>1 DEF Tied, Schemas, Requests, Ptrs, Pointers
  <1> QED
    BY <1>2 DEF Done, ioVars, Accepts

(* A NUL is in none of the classes of bytes that a state takes. *)
LEMMA NulNowhere ==
  /\ NUL \notin MethodChar \cup Letter \cup Digit \cup Mark \cup HostChar \cup {CR, LF, SP}
  /\ NUL \notin {".", "-", "/", ":", "[", "]", "_", "~", "%", "?", "#", "+", "H", "T", "P"}
  /\ NUL \in Unusual
  BY DEF NUL, CR, LF, SP, MethodChar, Letter, Upper, Lower, Digit, Mark, HostChar, Unusual

(* The request that the parser has when it is in the state s *)
LEMMA TiedHere ==
  ASSUME LineInv, NulInv, busy
  PROVE  Tied(r) /\ p \in Nat /\ p - 1 \in Nat /\ p + 1 \in Nat
  BY DEF LineInv, Typed, NulInv, Tied

LEMMA Ends09Accepts ==
  ASSUME LineInv, busy, NEW q, Tied(q), Ends09(q)
  PROVE  Accepts
  <1>1. Tied(Nine(q)) /\ ch # NUL
    BY TiedSet, NulNowhere DEF Ends09
  <1>2. Schemas(Nine(q).ptr)
    BY <1>1 DEF Tied
  <1> QED
    BY <1>1, <1>2, GoAccepts, DoneAccepts DEF Ends09

LEMMA SpacesAccept ==
  ASSUME LineInv, NulInv, busy, NEW s, Spaces(s)
  PROVE  Accepts
  <1>1. Tied(r) /\ Tied(Point(r, "http_protocol", p))
    BY TiedHere, TiedPoint DEF Pointers
  <1>2. Schemas(r.ptr) /\ Schemas(Point(r, "http_protocol", p).ptr)
    BY <1>1 DEF Tied
  <1> QED
    BY <1>1, <1>2, NulNowhere, GoAccepts, Ends09Accepts DEF Spaces

LEMMA UriAccepts ==
  ASSUME LineInv, NulInv, busy, NEW s, UriEnds(s) \/ UriQuits
  PROVE  Accepts
  <1>1. /\ Tied(Point(r, "uri_end", p)) /\ Tied(Point(r, "args_start", p + 1))
        /\ Tied(Flag(r, "quoted_uri")) /\ Tied(Flag(r, "complex_uri"))
    BY TiedHere, TiedPoint, TiedSet DEF Pointers, Flags
  <1>2. /\ Schemas(Point(r, "uri_end", p).ptr) /\ Schemas(Point(r, "args_start", p + 1).ptr)
        /\ Schemas(Flag(r, "quoted_uri").ptr) /\ Schemas(Flag(r, "complex_uri").ptr)
    BY <1>1 DEF Tied
  <1>3. CASE UriEnds(s)
    BY <1>1, <1>2, <1>3, NulNowhere, GoAccepts, FailAccepts, Ends09Accepts DEF UriEnds
  <1>4. CASE UriQuits
    BY <1>2, <1>4, NulNowhere, GoAccepts DEF UriQuits
  <1> QED
    BY <1>3, <1>4

LEMMA SlashTied ==
  ASSUME NEW q, Tied(q)
  PROVE  Tied(SlashOfSchema(q))
  <1>1. /\ q.ptr["schema_end"] + 1 \in Nat /\ q.ptr["schema_end"] + 2 \in Nat
        /\ {"uri_start", "uri_end"} \subseteq Pointers \ {"schema_start", "schema_end"}
    BY DEF Tied, Requests, Ptrs, Pointers
  <1>2. Tied(Point(q, "uri_start", q.ptr["schema_end"] + 1))
    BY <1>1, TiedPoint
  <1> QED
    BY <1>1, <1>2, TiedPoint DEF SlashOfSchema

LEMMA HostEndsAccept ==
  ASSUME LineInv, busy, NEW q, Tied(q), HostEnds(q)
  PROVE  Accepts
  <1> DEFINE h == Point(q, "host_end", p)
  <1>1. p \in Nat
    BY DEF LineInv, Typed
  <1>2. Tied(h)
    BY <1>1, TiedPoint DEF Pointers
  <1>3. Tied(Point(h, "uri_start", p)) /\ Tied(SlashOfSchema(h))
    BY <1>1, <1>2, TiedPoint, SlashTied DEF Pointers
  <1>4. Schemas(h.ptr) /\ Schemas(Point(h, "uri_start", p).ptr) /\ Schemas(SlashOfSchema(h).ptr)
    BY <1>2, <1>3 DEF Tied
  <1>5. \/ ch \in {":", "/", SP} /\ Go("port", h)
        \/ ch \in {":", "/", SP} /\ Go("after_slash_in_uri", Point(h, "uri_start", p))
        \/ ch \in {":", "/", SP} /\ Go("host_http_09", SlashOfSchema(h))
        \/ Invalid(h)
    BY DEF HostEnds
  <1> HIDE DEF h
  <1> QED
    BY <1>4, <1>5, NulNowhere, GoAccepts, FailAccepts

LEMMA InHostAccepts ==
  ASSUME LineInv, busy, NEW q, Tied(q), InHost(q)
  PROVE  Accepts
  BY HostEndsAccept, GoAccepts, NulNowhere DEF InHost, Tied

LEMMA BeginAccepts ==
  ASSUME LineInv, TellInv, ReadInv, NulInv,
         Start \/ Method \/ SpacesBeforeUri \/ Schema \/ SchemaSlash \/ SchemaSlashSlash
  PROVE  Accepts
  <1>1. busy
    BY DEF Start, Method, SpacesBeforeUri, Schema, SchemaSlash, SchemaSlashSlash, Expect, At
  <1>2. Tied(r) /\ Schemas(r.ptr) /\ p \in Nat \ {0} /\ p - 1 \in Nat
    BY <1>1, TiedHere DEF Tied, LineInv, Typed
  <1>3. CASE Start
    <2>1. Schemas(Point(r, "request_start", p).ptr)
      BY <1>2, TiedPoint DEF Pointers, Tied
    <2> QED
      BY <1>1, <1>3, <2>1, NulNowhere, GoAccepts, FailAccepts DEF Start
  <1>4. CASE Method
    <2> DEFINE name == SubSeq(buf, r.ptr["request_start"], p - 1)
               m == Point(r, "method_end", p - 1)
               known == IF name \in KnownMethods THEN name ELSE m.method
    <2>1. Tied(m)
      BY <1>2, TiedPoint DEF Pointers
    <2>2. known \in KnownMethods \cup {Unknown}
      BY <2>1 DEF Tied, Requests
    <2>3. [m EXCEPT !.method = IF name \in KnownMethods THEN name ELSE @]
            = [m EXCEPT !.method = known]
      OBVIOUS
    <2> HIDE DEF m, known
    <2>4. Schemas([m EXCEPT !.method = known].ptr)
      BY <2>1, <2>2, TiedSet DEF Tied
    <2>5. \/ ch = SP /\ Go("spaces_before_uri", [m EXCEPT !.method = known])
          \/ ch \in MethodChar /\ Go("method", r)
          \/ Fail("INVALID_METHOD", r)
      BY <1>4, <2>3 DEF Method, m
    <2> QED
      BY <1>1, <1>2, <2>4, <2>5, NulNowhere, GoAccepts, FailAccepts
  <1>5. CASE SpacesBeforeUri
    <2>1. Schemas(Point(r, "uri_start", p).ptr)
      BY <1>2, TiedPoint DEF Pointers, Tied
    <2>2. Point(r, "schema_start", p).ptr = [r.ptr EXCEPT !["schema_start"] = p]
      BY <1>2, PointFacts DEF Tied, Pointers
    <2>3. Schemas(Point(r, "schema_start", p).ptr)
      BY <1>2, <2>2 DEF Schemas, Tied, Requests, Ptrs, Pointers
    <2> QED
      BY <1>1, <1>2, <1>5, <2>1, <2>3, NulNowhere, GoAccepts, FailAccepts DEF SpacesBeforeUri
  <1>6. CASE Schema
    <2>1. At("schema") /\ "schema" \in States /\ "schema" \in InSchema
      BY <1>6 DEF Schema, States, InSchema
    <2>2. Absolute(r.ptr)
      BY <2>1, KnownHere DEF Known, Meant, Aimed
    <2>3. Point(r, "schema_end", p).ptr = [r.ptr EXCEPT !["schema_end"] = p]
      BY <1>2, PointFacts DEF Tied, Pointers
    <2>4. Schemas(Point(r, "schema_end", p).ptr)
      BY <1>2, <2>2, <2>3 DEF Schemas, Absolute, Tied, Requests, Ptrs, Pointers
    <2> QED
      BY <1>1, <1>2, <1>6, <2>4, NulNowhere, GoAccepts, FailAccepts DEF Schema
  <1>7. CASE SchemaSlash \/ SchemaSlashSlash
    BY <1>1, <1>2, <1>7, NulNowhere, GoAccepts, FailAccepts DEF SchemaSlash, SchemaSlashSlash,
       Expect
  <1> QED
    BY <1>3, <1>4, <1>5, <1>6, <1>7

LEMMA HostAccepts ==
  ASSUME LineInv, NulInv, HostStart \/ Host \/ HostEnd \/ HostIpLiteral \/ Port
  PROVE  Accepts
  <1>1. busy
    BY DEF HostStart, Host, HostEnd, HostIpLiteral, Port, At
  <1>2. Tied(r) /\ Schemas(r.ptr) /\ p \in Nat
    BY <1>1, TiedHere DEF Tied
  <1>3. CASE HostStart
    <2> DEFINE q == Point(r, "host_start", p)
    <2>1. Tied(q)
      BY <1>2, TiedPoint DEF Pointers
    <2>2. (ch = "[" /\ Go("host_ip_literal", q)) \/ InHost(q)
      BY <1>3 DEF HostStart
    <2> HIDE DEF q
    <2> QED
      BY <1>1, <2>1, <2>2, NulNowhere, GoAccepts, InHostAccepts DEF Tied
  <1>4. CASE Host \/ HostEnd
    BY <1>1, <1>2, <1>4, InHostAccepts, HostEndsAccept DEF Host, HostEnd
  <1>5. CASE HostIpLiteral
    <2>1. NUL \notin Letter \cup Digit \cup Mark \cup {":", "-", ".", "_", "~"}
      BY NulNowhere
    <2> QED
      BY <1>1, <1>2, <1>5, <2>1, NulNowhere, GoAccepts, FailAccepts DEF HostIpLiteral
  <1>6. CASE Port
    <2> DEFINE q == Point(r, "port_end", p)
    <2>1. Tied(q)
      BY <1>2, TiedPoint DEF Pointers
    <2>2. Schemas(Point(q, "uri_start", p).ptr) /\ Schemas(SlashOfSchema(q).ptr)
      BY <1>2, <2>1, TiedPoint, SlashTied DEF Tied, Pointers
    <2>3. \/ ch \in Digit /\ Go("port", r)
          \/ ch = "/" /\ Go("after_slash_in_uri", Point(q, "uri_start", p))
          \/ ch = SP /\ Go("host_http_09", SlashOfSchema(q))
          \/ Invalid(r)
      BY <1>6 DEF Port
    <2> HIDE DEF q
    <2> QED
      BY <1>1, <1>2, <2>2, <2>3, NulNowhere, GoAccepts, FailAccepts
  <1> QED
    BY <1>3, <1>4, <1>5, <1>6

LEMMA UriStepAccepts ==
  ASSUME LineInv, NulInv,
         \/ AfterSlashInUri \/ CheckUri \/ Uri
         \/ HostHttp09 \/ CheckUriHttp09 \/ Http09
  PROVE  Accepts
  <1>1. busy
    BY DEF AfterSlashInUri, CheckUri, Uri, HostHttp09, CheckUriHttp09, Http09, At
  <1>2. Tied(r) /\ Schemas(r.ptr) /\ p \in Nat /\ p + 1 \in Nat
    BY <1>1, TiedHere DEF Tied
  <1>3. /\ \A x \in Flags : Schemas(Flag(r, x).ptr)
        /\ \A v \in Nat : Schemas(Point(r, "uri_ext", v).ptr)
    BY <1>2, TiedSet, TiedPoint DEF Tied, Pointers
  <1>4. {"space_in_uri", "complex_uri", "plus_in_uri"} \subseteq Flags /\ 0 \in Nat
    BY DEF Flags
  <1>5. CASE AfterSlashInUri
    BY <1>1, <1>2, <1>3, <1>4, <1>5, NulNowhere, GoAccepts, UriAccepts DEF AfterSlashInUri
  <1>6. CASE CheckUri
    BY <1>1, <1>2, <1>3, <1>4, <1>6, NulNowhere, GoAccepts, UriAccepts DEF CheckUri
  <1>7. CASE Uri
    BY <1>1, <1>2, <1>3, <1>4, <1>7, NulNowhere, GoAccepts, UriAccepts DEF Uri
  <1>8. CASE HostHttp09 \/ CheckUriHttp09 \/ Http09
    BY <1>1, <1>2, <1>3, <1>4, <1>8, GoAccepts, FailAccepts, SpacesAccept
    DEF HostHttp09, CheckUriHttp09, Http09
  <1> QED
    BY <1>5, <1>6, <1>7, <1>8

LEMMA VersionAccepts ==
  ASSUME LineInv, NulInv,
         \/ HttpH \/ HttpHT \/ HttpHTT \/ HttpHTTP
         \/ FirstMajorDigit \/ MajorDigit \/ FirstMinorDigit \/ MinorDigit
         \/ SpacesAfterDigit \/ AlmostDone
  PROVE  Accepts
  <1>1. busy
    BY DEF HttpH, HttpHT, HttpHTT, HttpHTTP, Expect, FirstMajorDigit, MajorDigit,
       FirstMinorDigit, MinorDigit, SpacesAfterDigit, AlmostDone, At
  <1>2. Tied(r) /\ Schemas(r.ptr) /\ p - 1 \in Nat
    BY <1>1, TiedHere DEF Tied, LineInv, Typed
  <1>3. \A v : /\ Schemas([r EXCEPT !.major = v].ptr)
               /\ Schemas([r EXCEPT !.minor = v].ptr)
    BY <1>2, TiedSet
  <1>4. CASE HttpH \/ HttpHT \/ HttpHTT \/ HttpHTTP
    BY <1>1, <1>2, <1>4, NulNowhere, GoAccepts, FailAccepts DEF HttpH, HttpHT, HttpHTT, HttpHTTP,
       Expect
  <1>5. CASE FirstMajorDigit \/ MajorDigit
    <2>1. \/ ch \in Digit /\ Go("major_digit", [r EXCEPT !.major = Value(ch)])
          \/ ch \in Digit /\ Go("major_digit", [r EXCEPT !.major = Shifted(r.major, ch)])
          \/ ch = "." /\ Go("first_minor_digit", r)
          \/ Invalid(r)
      BY <1>5 DEF FirstMajorDigit, MajorDigit
    <2> QED
      BY <1>1, <1>2, <1>3, <2>1, NulNowhere, GoAccepts, FailAccepts
  <1>6. CASE FirstMinorDigit \/ MinorDigit
    <2>1. \/ ch \in Digit /\ Go("minor_digit", [r EXCEPT !.minor = Value(ch)])
          \/ ch \in Digit /\ Go("minor_digit", [r EXCEPT !.minor = Shifted(r.minor, ch)])
          \/ ch = CR /\ Go("almost_done", r)
          \/ ch = LF /\ Done(r)
          \/ ch = SP /\ Go("spaces_after_digit", r)
          \/ Invalid(r)
      BY <1>6 DEF FirstMinorDigit, MinorDigit
    <2> QED
      BY <1>1, <1>2, <1>3, <2>1, NulNowhere, GoAccepts, FailAccepts, DoneAccepts
  <1>7. CASE SpacesAfterDigit
    BY <1>1, <1>2, <1>7, NulNowhere, GoAccepts, FailAccepts, DoneAccepts DEF SpacesAfterDigit
  <1>8. CASE AlmostDone
    <2>1. Tied(Point(r, "request_end", p - 1))
      BY <1>2, TiedPoint DEF Pointers
    <2> QED
      BY <1>1, <1>8, <2>1, NulNowhere, FailAccepts, DoneAccepts DEF AlmostDone
  <1> QED
    BY <1>4, <1>5, <1>6, <1>7, <1>8

LEMMA StepAccepts == ASSUME LineInv, ReadInv, TellInv, NulInv, Step PROVE Accepts
  BY BeginAccepts, HostAccepts, UriStepAccepts, VersionAccepts, Zenon DEF Step

LEMMA NulStarts == Init => NulInv
  BY DEF Init, NulInv, Free, NewRequest, Pointers, Schemas

LEMMA NextNul == ASSUME LineInv, ReadInv, TellInv, NulInv, [Next]_vars PROVE NulInv'
  <1>1. p \in Nat \ {0} /\ busy \in BOOLEAN /\ pos \in Nat \ {0}
    BY DEF LineInv, Typed
  <1>2. CASE Step
    <2>1. Accepts /\ busy /\ Free(buf, 1, p - 1, {NUL})
      BY <1>2, StepAccepts DEF NulInv, Accepts
    <2>2. ch # NUL => Free(buf, 1, p, {NUL}) /\ Free(buf, 1, (p + 1) - 1, {NUL})
      BY <1>1, <2>1, FreeMore DEF ch
    <2>3. CASE rc' \in {"INVALID_METHOD", "INVALID_REQUEST"} /\ ~ busy'
      BY <2>3 DEF NulInv, Pending, Parsed
    <2>4. CASE busy' /\ p' = p /\ Schemas(r.ptr)'
      BY <2>1, <2>4 DEF NulInv, Accepts
    <2>5. CASE busy' /\ p' = p + 1 /\ ch # NUL /\ Schemas(r.ptr)'
      BY <2>1, <2>2, <2>5 DEF NulInv, Accepts
    <2>6. CASE ~ busy' /\ pos' = p + 1 /\ ch # NUL /\ Schemas(r.ptr)'
      BY <2>1, <2>2, <2>6 DEF NulInv, Accepts
    <2> QED
      BY <2>1, <2>3, <2>4, <2>5, <2>6 DEF Accepts
  <1>3. CASE Receive
    <2>1. /\ ~ busy /\ Pending /\ Schemas(r.ptr) /\ Free(buf, 1, pos - 1, {NUL})
          /\ UNCHANGED <<busy, p, pos, r, rc>>
      BY <1>3 DEF Receive, NulInv
    <2>2. PICK b \in Sends(client, Len(buf)) : buf' = Append(buf, b)
      BY <1>3 DEF Receive
    <2>3. buf \in Seq(Char) /\ pos <= Len(buf) + 1 /\ Len(buf) \in Nat
      BY DEF LineInv, Typed
    <2>4. \A k \in 1 .. pos - 1 : buf'[k] = buf[k]
      BY <1>1, <2>2, <2>3
    <2>5. Free(buf', 1, pos - 1, {NUL})
      BY <2>1, <2>4 DEF Free
    <2> QED
      BY <2>1, <2>5 DEF NulInv
  <1>4. CASE Enter
    BY <1>4 DEF Enter, ioVars, NulInv
  <1>5. CASE Again
    <2>1. r'.ptr = r.ptr /\ Schemas(r.ptr) /\ Free(buf, 1, p - 1, {NUL})
      BY <1>5 DEF Again, NulInv, LineInv, Typed, Requests
    <2> QED
      BY <1>5, <2>1 DEF Again, ioVars, NulInv, Schemas
  <1>6. CASE RefuseLine \/ CopyFails \/ ProcessLine
    BY <1>6 DEF RefuseLine, CopyFails, ProcessLine, Answer, NulInv, Pending, Parsed
  <1>7. CASE UNCHANGED vars
    BY <1>7 DEF vars, ioVars, NulInv, Pending, Parsed
  <1> QED
    BY <1>2, <1>3, <1>4, <1>5, <1>6, <1>7 DEF Next

-----------------------------------------------------------------------------
(* The scan of a host, byte by byte *)

(* g[n] is what the scan of h has found in its first n bytes. *)
Scans(h, g, n) ==
  /\ g[0] = Scanned(Len(h), Len(h), "usual", FALSE)
  /\ \A k \in 1 .. n : g[k] = ScanByte(g[k - 1], h[k], k - 1)

LEMMA ScanExists ==
  ASSUME NEW h, Len(h) \in Nat, NEW n \in Nat
  PROVE  \E g : g = [k \in 0 .. n |-> IF k = 0 THEN Scanned(Len(h), Len(h), "usual", FALSE)
                                      ELSE ScanByte(g[k - 1], h[k], k - 1)]
  <1> DEFINE first == Scanned(Len(h), Len(h), "usual", FALSE)
             Is(g, m) == g = [k \in 0 .. m |-> IF k = 0 THEN first
                                               ELSE ScanByte(g[k - 1], h[k], k - 1)]
             T == {m \in Nat : ~ \E g : Is(g, m)}
  <1> HIDE DEF first
  <1>1. T = {}
    <2> SUFFICES ASSUME T # {} PROVE FALSE
      OBVIOUS
    <2>1. T \in SUBSET Nat
      OBVIOUS
    <2> HIDE DEF T
    <2>2. PICK m \in T : \A k \in T : m <= k
      BY <2>1, LeastExists
    <2>3. m \in Nat /\ ~ \E g : Is(g, m)
      BY <2>2 DEF T
    <2>4. CASE m = 0
      <3> DEFINE g == [k \in 0 .. 0 |-> first]
      <3>1. \A k \in 0 .. 0 : k = 0
        OBVIOUS
      <3>2. Is(g, 0)
        BY <3>1
      <3> QED
        BY <2>3, <2>4, <3>2
    <2>5. CASE m # 0
      <3>1. m - 1 \in Nat /\ m - 1 < m
        BY <2>3, <2>5
      <3>2. m - 1 \notin T
        BY <2>2, <2>3, <3>1
      <3>3. PICK g : Is(g, m - 1)
        BY <3>1, <3>2 DEF T
      <3> DEFINE e == ScanByte(g[m - 1], h[m], m - 1)
                 w == [k \in 0 .. m |-> IF k = m THEN e ELSE g[k]]
      <3>4. \A k \in 0 .. m - 1 : g[k] = IF k = 0 THEN first
                                         ELSE ScanByte(g[k - 1], h[k], k - 1)
        BY <3>3
      <3>5. \A k \in 0 .. m : w[k] = IF k = 0 THEN first
                                     ELSE ScanByte(w[k - 1], h[k], k - 1)
        <4> SUFFICES ASSUME NEW k \in 0 .. m
                     PROVE  w[k] = IF k = 0 THEN first ELSE ScanByte(w[k - 1], h[k], k - 1)
          OBVIOUS
        <4>1. CASE k = m
          <5>1. w[k] = e /\ k # 0 /\ w[k - 1] = g[m - 1]
            BY <2>5, <3>1, <4>1
          <5> QED
            BY <4>1, <5>1
        <4>2. CASE k # m
          <5>1. k \in 0 .. m - 1 /\ w[k] = g[k]
            BY <2>3, <4>2
          <5>2. k # 0 => w[k - 1] = g[k - 1]
            BY <2>3, <4>2
          <5> HIDE DEF w
          <5> QED
            BY <3>4, <5>1, <5>2
        <4> QED
          BY <4>1, <4>2
      <3>6. Is(w, m)
        BY <3>5
      <3> QED
        BY <2>3, <3>6
    <2> QED
      BY <2>4, <2>5
  <1> QED
    BY <1>1 DEF first

LEMMA ScanIs ==
  ASSUME NEW h, Len(h) \in Nat
  PROVE  \E g : Scan(h) = g[Len(h)] /\ Scans(h, g, Len(h))
  <1> DEFINE Is(g) == g = [k \in 0 .. Len(h) |->
                             IF k = 0 THEN Scanned(Len(h), Len(h), "usual", FALSE)
                             ELSE ScanByte(g[k - 1], h[k], k - 1)]
             f == CHOOSE g : Is(g)
  <1>1. Is(f)
    BY ScanExists
  <1>2. Scan(h) = f[Len(h)]
    BY DEF Scan
  <1> HIDE DEF f
  <1>3. Scans(h, f, Len(h))
    BY <1>1 DEF Scans
  <1> QED
    BY <1>2, <1>3

InBrackets(h) == Len(h) > 0 /\ h[1] = "["

(* The hosts that the parser lets through: a name, or an address in brackets. *)
HostLike(h) ==
  /\ Len(h) \in Nat
  /\ \A k \in 1 .. Len(h) : h[k] \notin {NUL, "/"}
  /\ InBrackets(h) => /\ Len(h) >= 2 /\ h[Len(h)] = "]"
                      /\ \A k \in 1 .. Len(h) - 1 : h[k] # "]"
  /\ ~ InBrackets(h) => \A k \in 1 .. Len(h) : h[k] # ":"

TwoDots(h, n) == \E i \in 1 .. n - 1 : h[i] = "." /\ h[i + 1] = "."

(* The last dot in the first n bytes of h is at the index d, counted from 0. *)
LastDot(h, n, d) ==
  \/ d = Len(h) /\ \A k \in 1 .. n : h[k] # "."
  \/ d + 1 \in 1 .. n /\ h[d + 1] = "." /\ \A k \in d + 2 .. n : h[k] # "."

ScanState(h, n) ==
  IF InBrackets(h) /\ n > 0 THEN IF n = Len(h) THEN "rest" ELSE "literal" ELSE "usual"

ScanRecord ==
  [dot : Nat, len : Nat, state : {"usual", "literal", "rest"}, declined : BOOLEAN]

SoFar(h, n, s) ==
  /\ s \in ScanRecord /\ s.len = Len(h) /\ s.state = ScanState(h, n)
  /\ LastDot(h, n, s.dot)
  /\ s.declined <=> TwoDots(h, n)

LEMMA DotMore ==
  ASSUME NEW h, NEW n \in Nat \ {0}, Len(h) \in Nat, n <= Len(h), NEW d \in Nat,
         LastDot(h, n - 1, d)
  PROVE  /\ h[n] = "." => LastDot(h, n, n - 1)
         /\ h[n] # "." => LastDot(h, n, d)
         /\ TwoDots(h, n) <=> TwoDots(h, n - 1) \/ (h[n] = "." /\ d = n - 2)
  <1>1. h[n] = "." => LastDot(h, n, n - 1)
    BY DEF LastDot
  <1>2. ASSUME h[n] # "." PROVE LastDot(h, n, d)
    <2>1. CASE d = Len(h) /\ \A k \in 1 .. n - 1 : h[k] # "."
      BY <1>2, <2>1 DEF LastDot
    <2>2. CASE d + 1 \in 1 .. n - 1 /\ h[d + 1] = "." /\ \A k \in d + 2 .. n - 1 : h[k] # "."
      BY <1>2, <2>2 DEF LastDot
    <2> QED
      BY <2>1, <2>2 DEF LastDot
  <1>3. ASSUME TwoDots(h, n) PROVE TwoDots(h, n - 1) \/ (h[n] = "." /\ d = n - 2)
    <2>1. PICK i \in 1 .. n - 1 : h[i] = "." /\ h[i + 1] = "."
      BY <1>3 DEF TwoDots
    <2>2. CASE i = n - 1
      <3>1. h[n - 1] = "." /\ h[n] = "." /\ n - 1 \in 1 .. n - 1
        BY <2>1, <2>2
      <3>2. d + 1 \in 1 .. n - 1 /\ \A k \in d + 2 .. n - 1 : h[k] # "."
        BY <3>1 DEF LastDot
      <3>3. d + 1 = n - 1
        BY <3>1, <3>2
      <3> QED
        BY <3>1, <3>3
    <2>3. CASE i # n - 1
      <3>1. i \in 1 .. (n - 1) - 1
        BY <2>3
      <3> QED
        BY <2>1, <3>1 DEF TwoDots
    <2> QED
      BY <2>2, <2>3
  <1>4. TwoDots(h, n - 1) => TwoDots(h, n)
    BY DEF TwoDots
  <1>5. ASSUME h[n] = ".", d = n - 2 PROVE TwoDots(h, n)
    <2>1. d + 1 = n - 1 /\ n - 1 \in 1 .. n - 1 /\ h[n - 1] = "."
      BY <1>5 DEF LastDot
    <2>2. h[(n - 1) + 1] = "."
      BY <1>5
    <2> QED
      BY <2>1, <2>2 DEF TwoDots
  <1> QED
    BY <1>1, <1>2, <1>3, <1>4, <1>5

LEMMA ScanMore ==
  ASSUME NEW h, HostLike(h), NEW n \in Nat \ {0}, n <= Len(h), NEW s, SoFar(h, n - 1, s)
  PROVE  SoFar(h, n, ScanByte(s, h[n], n - 1))
  <1> DEFINE b == h[n]
             t == ScanByte(s, b, n - 1)
  <1>1. /\ Len(h) \in Nat /\ n - 1 \in Nat /\ s \in ScanRecord /\ s.dot \in Nat
        /\ s.len = Len(h) /\ s.state = ScanState(h, n - 1)
        /\ LastDot(h, n - 1, s.dot) /\ s.declined \in BOOLEAN
        /\ s.declined <=> TwoDots(h, n - 1)
    BY DEF HostLike, SoFar, ScanRecord
  <1>2. /\ b = "." => LastDot(h, n, n - 1)
        /\ b # "." => LastDot(h, n, s.dot)
        /\ TwoDots(h, n) <=> TwoDots(h, n - 1) \/ (b = "." /\ s.dot = n - 2)
    BY <1>1, DotMore
  <1>3. /\ b \notin {NUL, "/"}
        /\ InBrackets(h) => (b = "]" <=> n = Len(h))
        /\ ~ InBrackets(h) => b # ":"
        /\ n = 1 => (b = "[" <=> InBrackets(h))
    BY <1>1 DEF HostLike, InBrackets
  <1>4. InBrackets(h) => Len(h) >= 2
    BY DEF HostLike
  <1>5. t \in ScanRecord /\ t.len = Len(h) /\ t.state = ScanState(h, n)
    <2>1. CASE b = "."
      <3>1. t = [s EXCEPT !.dot = n - 1, !.declined = @ \/ s.dot = (n - 1) - 1]
        BY <2>1 DEF ScanByte
      <3>2. t \in ScanRecord /\ t.len = s.len /\ t.state = s.state
        BY <1>1, <3>1 DEF ScanRecord
      <3>3. ScanState(h, n) = ScanState(h, n - 1)
        BY <1>1, <1>3, <2>1 DEF ScanState
      <3> QED
        BY <1>1, <3>2, <3>3
    <2>2. CASE b = ":"
      <3>1. InBrackets(h) /\ n # 1 /\ n # Len(h)
        BY <1>3, <2>2
      <3>2. s.state = "literal" /\ ScanState(h, n) = "literal"
        BY <1>1, <3>1 DEF ScanState
      <3>3. t = s
        BY <2>2, <3>2 DEF ScanByte
      <3> QED
        BY <1>1, <3>2, <3>3
    <2>3. CASE b = "[" /\ n = 1
      <3>1. InBrackets(h) /\ n # Len(h)
        BY <1>3, <1>4, <2>3
      <3>2. t = [s EXCEPT !.state = "literal"]
        BY <2>3 DEF ScanByte
      <3>3. t \in ScanRecord /\ t.len = s.len /\ t.state = "literal"
        BY <1>1, <3>2 DEF ScanRecord
      <3> QED
        BY <1>1, <3>1, <3>3 DEF ScanState
    <2>4. CASE b = "]" /\ InBrackets(h)
      <3>1. n = Len(h) /\ n >= 2
        BY <1>3, <1>4, <2>4
      <3>2. s.state = "literal"
        BY <1>1, <2>4, <3>1 DEF ScanState
      <3>3. t = [s EXCEPT !.len = (n - 1) + 1, !.state = "rest"]
        BY <2>4, <3>2 DEF ScanByte
      <3>4. (n - 1) + 1 = n /\ n \in Nat
        OBVIOUS
      <3>5. t \in ScanRecord /\ t.len = n /\ t.state = "rest"
        <4> DEFINE s1 == [s EXCEPT !.len = n]
        <4>1. s1 \in ScanRecord /\ s1.len = n
          BY <1>1, <3>4 DEF ScanRecord
        <4>2. t = [s1 EXCEPT !.state = "rest"]
          BY <3>3, <3>4
        <4> HIDE DEF s1
        <4> QED
          BY <4>1, <4>2 DEF ScanRecord
      <3> QED
        BY <2>4, <3>1, <3>5 DEF ScanState
    <2>5. CASE b \notin {".", ":"} /\ ~ (b = "[" /\ n = 1) /\ ~ (b = "]" /\ InBrackets(h))
      <3>1. s.state = "literal" => b # "]"
        BY <1>1, <2>5 DEF ScanState
      <3>2. t = s
        BY <1>1, <1>3, <2>5, <3>1 DEF ScanByte, NUL
      <3>3. ScanState(h, n) = ScanState(h, n - 1)
        BY <1>1, <1>3, <2>5 DEF ScanState
      <3> QED
        BY <1>1, <3>2, <3>3
    <2> QED
      BY <2>1, <2>2, <2>3, <2>4, <2>5
  <1>6. /\ b = "." => t.dot = n - 1 /\ (t.declined <=> s.declined \/ s.dot = n - 2)
        /\ b # "." => t.dot = s.dot /\ t.declined = s.declined
    <2>1. CASE b = "."
      <3>1. t = [s EXCEPT !.dot = n - 1, !.declined = @ \/ s.dot = (n - 1) - 1]
        BY <2>1 DEF ScanByte
      <3>2. (n - 1) - 1 = n - 2
        OBVIOUS
      <3> QED
        BY <1>1, <2>1, <3>1, <3>2 DEF ScanRecord
    <2>2. CASE b # "."
      <3>1. \/ t = s
            \/ t = [s EXCEPT !.len = n - 1, !.state = "rest"]
            \/ t = [s EXCEPT !.state = "literal"]
            \/ t = [s EXCEPT !.len = (n - 1) + 1, !.state = "rest"]
        BY <1>3, <2>2 DEF ScanByte, NUL
      <3> QED
        BY <1>1, <2>2, <3>1 DEF ScanRecord
    <2> QED
      BY <2>1, <2>2
  <1> HIDE DEF b, t
  <1>7. LastDot(h, n, t.dot) /\ (t.declined <=> TwoDots(h, n))
    BY <1>1, <1>2, <1>6
  <1>8. SoFar(h, n, t)
    BY <1>5, <1>7 DEF SoFar
  <1> QED
    BY <1>8 DEF t, b

LEMMA ScanSoFar ==
  ASSUME NEW h, HostLike(h)
  PROVE  SoFar(h, Len(h), Scan(h))
  <1>1. Len(h) \in Nat
    BY DEF HostLike
  <1>2. PICK g : Scan(h) = g[Len(h)] /\ Scans(h, g, Len(h))
    BY <1>1, ScanIs
  <1> DEFINE T == {n \in 0 .. Len(h) : ~ SoFar(h, n, g[n])}
  <1>3. T = {}
    <2> SUFFICES ASSUME T # {} PROVE FALSE
      OBVIOUS
    <2>1. T \in SUBSET Nat
      BY <1>1
    <2> HIDE DEF T
    <2>2. PICK n \in T : \A k \in T : n <= k
      BY <2>1, LeastExists
    <2>3. n \in Nat /\ n <= Len(h) /\ ~ SoFar(h, n, g[n])
      BY <1>1, <2>2 DEF T
    <2>4. CASE n = 0
      <3>1. g[0] = [dot |-> Len(h), len |-> Len(h), state |-> "usual", declined |-> FALSE]
        BY <1>2 DEF Scans, Scanned
      <3>2. LastDot(h, 0, Len(h)) /\ ~ TwoDots(h, 0) /\ ScanState(h, 0) = "usual"
        BY DEF LastDot, TwoDots, ScanState
      <3>3. SoFar(h, 0, g[0])
        BY <1>1, <3>1, <3>2 DEF SoFar, ScanRecord
      <3> QED
        BY <2>3, <2>4, <3>3
    <2>5. CASE n # 0
      <3>1. n \in Nat \ {0} /\ n - 1 \in 0 .. Len(h) /\ n - 1 < n /\ n \in 1 .. Len(h)
        BY <1>1, <2>3, <2>5
      <3>2. n - 1 \notin T
        BY <2>2, <2>3, <3>1
      <3>3. SoFar(h, n - 1, g[n - 1])
        BY <3>1, <3>2 DEF T
      <3>4. g[n] = ScanByte(g[n - 1], h[n], n - 1)
        BY <1>2, <3>1 DEF Scans
      <3>5. SoFar(h, n, g[n])
        BY <2>3, <3>1, <3>3, <3>4, ScanMore
      <3> QED
        BY <2>3, <3>5
    <2> QED
      BY <2>4, <2>5
  <1>4. Len(h) \in 0 .. Len(h)
    BY <1>1
  <1> QED
    BY <1>2, <1>3, <1>4

(* What os_http_validate_host declines of the hosts that it is called with *)
LEMMA DeclinedIs ==
  ASSUME NEW h, HostLike(h)
  PROVE  Declined(h) <=> \/ TwoDots(h, Len(h))
                         \/ ~ InBrackets(h) /\ (Len(h) = 0 \/ (Len(h) = 1 /\ h[1] = "."))
  <1> DEFINE s == Scan(h)
             n == Len(h)
  <1>1. n \in Nat /\ SoFar(h, n, s)
    BY ScanSoFar DEF HostLike
  <1>2. /\ s.dot \in Nat /\ s.len = n /\ LastDot(h, n, s.dot)
        /\ s.declined <=> TwoDots(h, n)
    BY <1>1 DEF SoFar, ScanRecord
  <1>3. Declined(h) <=> s.declined \/ (IF s.dot = s.len - 1 THEN s.len - 1 ELSE s.len) = 0
    BY DEF Declined, NameLength
  <1> HIDE DEF s
  <1>4. s.dot = n - 1 <=> n > 0 /\ h[n] = "."
    <2>1. n \in Nat /\ LastDot(h, n, s.dot) /\ s.dot \in Nat
      BY <1>1, <1>2
    <2> QED
      BY <2>1 DEF LastDot
  <1>5. InBrackets(h) => n >= 2 /\ h[n] # "."
    BY DEF HostLike
  <1>6. (IF s.dot = s.len - 1 THEN s.len - 1 ELSE s.len) = 0
          <=> ~ InBrackets(h) /\ (n = 0 \/ (n = 1 /\ h[1] = "."))
    <2>1. CASE s.dot = n - 1
      BY <1>1, <1>2, <1>4, <1>5, <2>1
    <2>2. CASE s.dot # n - 1
      BY <1>1, <1>2, <1>4, <1>5, <2>2
    <2> QED
      BY <2>1, <2>2
  <1> QED
    BY <1>2, <1>3, <1>6

-----------------------------------------------------------------------------
(* The verdict about the host *)

JudgeInv ==
  /\ answer = "BAD_REQUEST" => Refused
  /\ answer \in {"simple", "headers"} => ~ Refused

LEMMA NextJudges ==
  ASSUME LineInv, AnswerInv, JudgeInv, [Next]_vars
  PROVE  JudgeInv'
  <1>1. busy => Pending
    BY DEF LineInv, Places
  <1>2. Pending => answer = "none"
    BY DEF AnswerInv
  <1>3. CASE Step
    BY <1>1, <1>2, <1>3, StepIsSilent DEF Silent, JudgeInv
  <1>4. CASE Receive \/ Enter \/ Again
    <2>1. answer' = answer /\ Pending
      BY <1>1, <1>4 DEF Receive, Enter, Again, ioVars
    <2> QED
      BY <1>2, <2>1 DEF JudgeInv
  <1>5. CASE RefuseLine \/ CopyFails \/ ProcessLine
    <2>1. UNCHANGED <<buf, r, rc>>
      BY <1>5 DEF RefuseLine, CopyFails, ProcessLine, Answer
    <2>2. Refused' = Refused
      BY <2>1 DEF Refused, HasHost, HostBytes
    <2>3. \/ answer' = "BAD_REQUEST" /\ Refused
          \/ answer' = "INTERNAL_SERVER_ERROR"
          \/ answer' \in {"simple", "headers"} /\ ~ Refused
      BY <1>5 DEF RefuseLine, CopyFails, ProcessLine, Answer
    <2> QED
      BY <2>2, <2>3 DEF JudgeInv
  <1>6. CASE UNCHANGED vars
    BY <1>6 DEF vars, ioVars, JudgeInv, Refused, HasHost, HostBytes
  <1> QED
    BY <1>3, <1>4, <1>5, <1>6 DEF Next

(* Where the host of a line is, and what its bytes are *)
LEMMA HostIs ==
  ASSUME LineInv, ReadInv, TellInv, NulInv, rc = "OK"
  PROVE  LET f == r.ptr
             a == f["host_start"]
             e == f["host_end"]
         IN  /\ Absolute(f) <=> f["schema_end"] # 0
             /\ Absolute(f) =>
                  /\ a = f["schema_end"] + 3 /\ a \in Nat \ {0} /\ e \in Nat
                  /\ a <= e /\ e <= Len(buf)
                  /\ Free(buf, a, e - 1, {NUL, "/"})
                  /\ buf[a] = "[" => First(buf, a, {"]"}, e - 1) /\ a < e - 1
                  /\ buf[a] # "[" => First(buf, a, HostStop, e)
             /\ ~ Absolute(f) => a = 0
  <1> DEFINE f == r.ptr
             a == f["host_start"]
             e == f["host_end"]
             c == f["request_end"] + 1
  <1>1. Parsed
    BY DEF Parsed
  <1>2. /\ f \in Ptrs /\ buf \in Seq(Char) /\ Len(buf) \in Nat /\ pos \in 1 .. Len(buf) + 1
        /\ Ended(buf, f, pos)
    BY <1>1 DEF LineInv, Typed, Requests, ReadInv
  <1>3. f["request_end"] \in 1 .. Len(buf) /\ f["request_end"] < pos
    BY <1>2 DEF Ended
  <1>4. /\ Aimed(buf, f, "almost_done", c) /\ Schemed(buf, f, "almost_done", c)
        /\ Pathed(buf, f, "almost_done", c)
    BY <1>1 DEF TellInv, Meant
  <1>5. Schemas(f) /\ Free(buf, 1, pos - 1, {NUL})
    BY <1>1 DEF NulInv, LineInv, Places, Parsed, Pending
  <1>6. "almost_done" \in AfterUri /\ "almost_done" \notin Ahead \cup InSchema
    BY DEF AfterUri, Protocol, Ahead, InSchema
  <1>7. /\ f["schema_start"] \in Nat /\ f["schema_end"] \in Nat /\ a \in Nat /\ e \in Nat
        /\ Path(buf, f) \in Nat
    BY <1>2 DEF Ptrs, Pointers, Path
  <1>8. c \in Nat /\ c <= Len(buf) + 1 /\ c <= pos
    BY <1>2, <1>3
  <1> HIDE DEF c
  <1>9. ~ Absolute(f) => a = 0 /\ f["schema_end"] = 0
    BY <1>4, <1>5 DEF Aimed, Schemas, Absolute
  <1>10. ASSUME Absolute(f)
         PROVE  /\ f["schema_end"] # 0
                /\ a = f["schema_end"] + 3 /\ a \in Nat \ {0} /\ e \in Nat
                /\ a <= e /\ e <= Len(buf)
                /\ Free(buf, a, e - 1, {NUL, "/"})
                /\ buf[a] = "[" => First(buf, a, {"]"}, e - 1) /\ a < e - 1
                /\ buf[a] # "[" => First(buf, a, HostStop, e)
    <2>1. f["schema_start"] # 0 /\ f["schema_start"] <= f["schema_end"]
      BY <1>4, <1>6, <1>10 DEF Schemed, First, Absolute, InSchema
    <2>2. /\ a = f["schema_end"] + 3 /\ HostFound(buf, f)
          /\ e <= Path(buf, f) /\ Path(buf, f) < c
          /\ Free(buf, a, Path(buf, f) - 1, PathStop)
      BY <1>4, <1>6, <1>10 DEF Pathed, Host3, First
    <2>3. a \in Nat \ {0} /\ e <= Len(buf) /\ e < pos
      BY <1>2, <1>7, <1>8, <2>2
    <2>4. /\ buf[a] = "[" => First(buf, a, {"]"}, e - 1)
          /\ buf[a] # "[" => First(buf, a, HostStop, e)
      BY <2>2 DEF HostFound, Literal
    <2>5. buf[a] = "[" => a < e - 1
      <3> SUFFICES ASSUME buf[a] = "[" PROVE a < e - 1
        OBVIOUS
      <3>1. a <= e - 1 /\ buf[e - 1] = "]"
        BY <2>4 DEF First
      <3>2. a # e - 1
        BY <3>1
      <3> QED
        BY <1>7, <3>1, <3>2
    <2>6. a <= e
      BY <1>7, <2>4 DEF First
    <2>7. Free(buf, a, e - 1, {NUL, "/"})
      <3> SUFFICES ASSUME NEW k \in a .. e - 1 PROVE buf[k] \notin {NUL, "/"}
        BY DEF Free
      <3>1. k \in 1 .. pos - 1 /\ k \in a .. Path(buf, f) - 1
        BY <1>2, <1>7, <2>2, <2>3
      <3> QED
        BY <1>5, <2>2, <3>1 DEF Free, PathStop
    <2> QED
      BY <1>7, <2>1, <2>2, <2>3, <2>4, <2>5, <2>6, <2>7
  <1> QED
    BY <1>9, <1>10

(* The bytes that are scanned are those between the two pointers. *)
LEMMA HostBytesAre ==
  ASSUME NEW u \in Seq(Char), NEW a \in Nat \ {0}, NEW e \in Nat, a <= e, e <= Len(u)
  PROVE  LET h == SubSeq(u, a, e - 1) IN
         /\ Len(h) = e - a /\ e - a \in Nat
         /\ \A k \in 1 .. Len(h) : h[k] = u[(a + k) - 1]
         /\ TwoDots(h, Len(h)) <=> \E i \in a .. e - 2 : u[i] = "." /\ u[i + 1] = "."
  <1> DEFINE h == SubSeq(u, a, e - 1)
  <1>1. Len(h) = e - a /\ e - a \in Nat
    OBVIOUS
  <1>2. \A k \in 1 .. Len(h) : h[k] = u[(a + k) - 1]
    OBVIOUS
  <1> HIDE DEF h
  <1>3. ASSUME TwoDots(h, Len(h)) PROVE \E i \in a .. e - 2 : u[i] = "." /\ u[i + 1] = "."
    <2>1. PICK k \in 1 .. Len(h) - 1 : h[k] = "." /\ h[k + 1] = "."
      BY <1>3 DEF TwoDots
    <2>2. k \in 1 .. Len(h) /\ k + 1 \in 1 .. Len(h) /\ (a + k) - 1 \in a .. e - 2
          /\ (a + (k + 1)) - 1 = ((a + k) - 1) + 1
      BY <1>1, <2>1
    <2>3. u[(a + k) - 1] = "." /\ u[((a + k) - 1) + 1] = "."
      BY <1>2, <2>1, <2>2
    <2> QED
      BY <2>2, <2>3
  <1>4. ASSUME NEW i \in a .. e - 2, u[i] = ".", u[i + 1] = "." PROVE TwoDots(h, Len(h))
    <2> DEFINE k == (i - a) + 1
    <2>1. k \in 1 .. Len(h) - 1 /\ k \in 1 .. Len(h) /\ k + 1 \in 1 .. Len(h)
          /\ (a + k) - 1 = i /\ (a + (k + 1)) - 1 = i + 1
      BY <1>1
    <2> HIDE DEF k
    <2>2. h[k] = "." /\ h[k + 1] = "."
      BY <1>2, <1>4, <2>1
    <2> QED
      BY <2>1, <2>2 DEF TwoDots
  <1> QED
    BY <1>1, <1>2, <1>3, <1>4 DEF h

LEMMA HostLikeIs ==
  ASSUME NEW u, NEW a \in Nat \ {0}, NEW e \in Nat, a <= e, Free(u, a, e - 1, {NUL, "/"}),
         u[a] = "[" => First(u, a, {"]"}, e - 1) /\ a < e - 1,
         u[a] # "[" => First(u, a, HostStop, e),
         NEW h, Len(h) = e - a, \A k \in 1 .. Len(h) : h[k] = u[(a + k) - 1]
  PROVE  HostLike(h) /\ (InBrackets(h) <=> u[a] = "[")
  <1>1. Len(h) \in Nat
    OBVIOUS
  <1>2. ASSUME NEW k \in 1 .. Len(h) PROVE h[k] = u[(a + k) - 1] /\ (a + k) - 1 \in a .. e - 1
    BY <1>1
  <1>3. InBrackets(h) <=> u[a] = "["
    <2>1. CASE Len(h) = 0
      BY <2>1 DEF InBrackets
    <2>2. CASE Len(h) # 0
      <3>1. 1 \in 1 .. Len(h) /\ (a + 1) - 1 = a
        BY <1>1, <2>2
      <3>2. h[1] = u[a]
        BY <1>2, <3>1
      <3> QED
        BY <1>1, <2>2, <3>2 DEF InBrackets
    <2> QED
      BY <2>1, <2>2
  <1>4. \A k \in 1 .. Len(h) : h[k] \notin {NUL, "/"}
    BY <1>2 DEF Free
  <1>5. ASSUME u[a] = "["
        PROVE  Len(h) >= 2 /\ h[Len(h)] = "]" /\ \A k \in 1 .. Len(h) - 1 : h[k] # "]"
    <2>1. u[e - 1] = "]" /\ Free(u, a, (e - 1) - 1, {"]"}) /\ a < e - 1
      BY <1>5 DEF First
    <2>2. Len(h) >= 2 /\ Len(h) \in 1 .. Len(h) /\ (a + Len(h)) - 1 = e - 1
      BY <2>1
    <2>3. h[Len(h)] = "]"
      BY <1>2, <2>1, <2>2
    <2>4. ASSUME NEW k \in 1 .. Len(h) - 1 PROVE h[k] # "]"
      <3>1. k \in 1 .. Len(h) /\ (a + k) - 1 \in a .. (e - 1) - 1
        BY <1>1
      <3>2. h[k] = u[(a + k) - 1]
        BY <1>2, <3>1
      <3> QED
        BY <2>1, <3>1, <3>2 DEF Free
    <2> QED
      BY <2>2, <2>3, <2>4
  <1>6. ASSUME u[a] # "[" PROVE \A k \in 1 .. Len(h) : h[k] # ":"
    <2>1. Free(u, a, e - 1, HostStop)
      BY <1>6 DEF First
    <2> QED
      BY <1>2, <2>1 DEF Free, HostStop
  <1> QED
    BY <1>1, <1>3, <1>4, <1>5, <1>6 DEF HostLike

(* What is left of a host without a dot at its end is empty. *)
LEMMA NameIs ==
  ASSUME NEW h \in Seq(Char)
  PROVE  (IF h # <<>> /\ h[Len(h)] = "." THEN Len(h) - 1 ELSE Len(h)) = 0
           <=> Len(h) = 0 \/ (Len(h) = 1 /\ h[1] = ".")
  <1>1. Len(h) \in Nat /\ (h = <<>> <=> Len(h) = 0)
    OBVIOUS
  <1>2. CASE Len(h) = 0
    BY <1>1, <1>2
  <1>3. CASE Len(h) = 1
    BY <1>1, <1>3
  <1>4. CASE Len(h) > 1
    BY <1>1, <1>4
  <1> QED
    BY <1>1, <1>2, <1>3, <1>4

LEMMA VerdictIs ==
  ASSUME LineInv, ReadInv, TellInv, NulInv, JudgeInv, rc = "OK",
         answer \in {"BAD_REQUEST", "simple", "headers"}
  PROVE  HostVerdict
  <1> DEFINE schema == r.ptr["schema_end"]
             host == SubSeq(buf, schema + 3, FirstFrom(schema + 3, {":", "/", SP}) - 1)
             name == IF host # <<>> /\ host[Len(host)] = "." THEN Len(host) - 1 ELSE Len(host)
             literal == buf[schema + 3] = "["
             dots == \E i \in schema + 3 .. r.ptr["host_end"] - 2 :
                       buf[i] = "." /\ buf[i + 1] = "."
             f == r.ptr
             a == f["host_start"]
             e == f["host_end"]
             h == HostBytes
  <1>1. SUFFICES answer = "BAD_REQUEST" <=> schema # 0 /\ (dots \/ (~ literal /\ name = 0))
    BY DEF HostVerdict
  <1>2. answer = "BAD_REQUEST" <=> HasHost /\ Declined(h)
    BY DEF JudgeInv, Refused
  <1>3. /\ Absolute(f) <=> schema # 0
        /\ ~ Absolute(f) => a = 0
    BY HostIs
  <1>4. CASE ~ Absolute(f)
    BY <1>2, <1>3, <1>4 DEF HasHost
  <1>5. CASE Absolute(f)
    <2>1. /\ a = schema + 3 /\ a \in Nat \ {0} /\ e \in Nat /\ a <= e /\ e <= Len(buf)
          /\ Free(buf, a, e - 1, {NUL, "/"})
          /\ buf[a] = "[" => First(buf, a, {"]"}, e - 1) /\ a < e - 1
          /\ buf[a] # "[" => First(buf, a, HostStop, e)
      BY <1>5, HostIs
    <2>2. buf \in Seq(Char) /\ Len(buf) \in Nat
      BY DEF LineInv, Typed
    <2>3. /\ Len(h) = e - a /\ e - a \in Nat
          /\ \A k \in 1 .. Len(h) : h[k] = buf[(a + k) - 1]
          /\ TwoDots(h, Len(h)) <=> \E i \in a .. e - 2 : buf[i] = "." /\ buf[i + 1] = "."
      BY <2>1, <2>2, HostBytesAre DEF HostBytes
    <2>4. TwoDots(h, Len(h)) <=> dots
      BY <2>1, <2>3
    <2>5. h = SubSeq(buf, a, e - 1)
      BY DEF HostBytes
    <2>6. HasHost
      BY <2>1 DEF HasHost
    <2>7. literal <=> buf[a] = "["
      BY <2>1
    <2> HIDE DEF dots, literal, h
    <2> HIDE DEF a, e
    <2>9. HostLike(h) /\ (InBrackets(h) <=> literal)
      <3>1. /\ a \in Nat \ {0} /\ e \in Nat /\ a <= e
            /\ Free(buf, a, e - 1, {NUL, "/"})
            /\ buf[a] = "[" => First(buf, a, {"]"}, e - 1) /\ a < e - 1
            /\ buf[a] # "[" => First(buf, a, HostStop, e)
        BY <2>1
      <3>2. Len(h) = e - a /\ \A k \in 1 .. Len(h) : h[k] = buf[(a + k) - 1]
        BY <2>3
      <3>3. HostLike(h) /\ (InBrackets(h) <=> buf[a] = "[")
        BY <3>1, <3>2, HostLikeIs, Zenon
      <3> QED
        BY <2>7, <3>3
    <2>10. Declined(h) <=> \/ dots
                           \/ ~ literal /\ (Len(h) = 0 \/ (Len(h) = 1 /\ h[1] = "."))
      BY <2>4, <2>9, DeclinedIs
    <2>11. ASSUME ~ literal PROVE name = 0 <=> Len(h) = 0 \/ (Len(h) = 1 /\ h[1] = ".")
      <3>1. First(buf, a, HostStop, e)
        BY <2>1, <2>7, <2>11
      <3>2. e \in a .. Len(buf) /\ a \in Nat
        BY <2>1, <2>2
      <3>3. FirstFrom(a, HostStop) = e
        BY <3>1, <3>2, FirstIs
      <3>4. host = h
        BY <2>1, <2>5, <3>3 DEF HostStop
      <3>5. h \in Seq(Char)
        <4>1. \A i \in a .. e - 1 : buf[i] \in Char
          BY <2>1, <2>2
        <4> QED
          BY <2>1, <2>2, <2>5, <4>1
      <3> HIDE DEF host
      <3> QED
        BY <3>4, <3>5, NameIs
    <2> HIDE DEF name
    <2> QED
      BY <1>2, <1>3, <1>5, <2>6, <2>10, <2>11
  <1> QED
    BY <1>4, <1>5

-----------------------------------------------------------------------------
(* The theorems *)

(***************************************************************************)
(* In every state of http_parse_request_line the pointers it has set are   *)
(* those of the bytes read so far that Meant describes, whatever the bytes *)
(* are and however they were cut into calls.                               *)
(***************************************************************************)
THEOREM PointersAlwaysTell == Spec => []TellInv
  <1>1. LineInv /\ ReadInv /\ TellInv /\ [Next]_vars => TellInv'
    BY NextTells
  <1> QED
    BY <1>1, ReadInvHolds, TellStarts, PTL DEF Spec

(***************************************************************************)
(* A line that http_parse_request_line has parsed has its method, schema,  *)
(* host, port, URI and protocol where a search of the whole line finds     *)
(* them: the state it goes on with says all that matters about the bytes   *)
(* of the earlier calls, for any buffer, client and cut into calls.        *)
(***************************************************************************)
THEOREM TargetAlwaysFound == Spec => []TargetFound
  <1>1. ASSUME LineInv, ReadInv, TellInv PROVE TargetFound
    <2>1. CASE Parsed
      BY <1>1, <2>1, TargetIs DEF TellInv
    <2>2. CASE ~ Parsed
      BY <2>2, Zenon DEF TargetFound
    <2> QED
      BY <2>1, <2>2
  <1> QED
    BY <1>1, ReadInvHolds, PointersAlwaysTell, PTL

(***************************************************************************)
(* What http_parse_request_line has noted in the fields and flags of the   *)
(* request is true of the bytes it has read, in every state and at every   *)
(* byte: the digits of the version so far, modulo the width of the fields, *)
(* and of the URI the byte after which it is not checked any further.      *)
(***************************************************************************)
THEOREM NotesAlwaysTrue == Spec => []NoteInv
  <1>1. LineInv /\ ReadInv /\ TellInv /\ NoteInv /\ [Next]_vars => NoteInv'
    BY NextNotes
  <1>2. Init => NoteInv
    BY NoteStarts
  <1> QED
    BY <1>1, <1>2, ReadInvHolds, PointersAlwaysTell, PTL DEF Spec

(***************************************************************************)
(* The version of a parsed line is the one that is written in it, modulo   *)
(* the 16 bits of http_major and http_minor and however long its digits    *)
(* are; a line without a protocol is version 9, and only GET has it.       *)
(***************************************************************************)
THEOREM VersionAlwaysFound == Spec => []VersionFound
  <1>1. ASSUME LineInv, ReadInv, NoteInv PROVE VersionFound
    <2>1. CASE Parsed
      BY <1>1, <2>1, VersionIs
    <2>2. CASE ~ Parsed
      BY <2>2, Zenon DEF VersionFound
    <2> QED
      BY <2>1, <2>2
  <1> QED
    BY <1>1, ReadInvHolds, NotesAlwaysTrue, PTL

(***************************************************************************)
(* The flags, args_start and uri_ext that http_process_request_uri decides *)
(* by are exact for the URI that was found, also when the parser took its  *)
(* end for one too early and went back into it after spaces.               *)
(***************************************************************************)
THEOREM FlagsAlwaysExact == Spec => []FlagsExact
  <1>1. ASSUME LineInv, ReadInv, TellInv, NoteInv PROVE FlagsExact
    <2>1. CASE Parsed
      BY <1>1, <2>1, FlagsAreExact
    <2>2. CASE ~ Parsed
      BY <2>2, Zenon DEF FlagsExact
    <2> QED
      BY <2>1, <2>2
  <1> QED
    BY <1>1, ReadInvHolds, PointersAlwaysTell, NotesAlwaysTrue, PTL

(***************************************************************************)
(* http_process_request_line answers a line without reading headers only   *)
(* when the version in it is below 1.0, and 9 only for GET; it goes on to  *)
(* the headers only from 1.0 on, and refuses what the parser refused.      *)
(***************************************************************************)
THEOREM AlwaysRouted == Spec => []Routed
  <1>1. LineInv /\ AnswerInv /\ [Next]_vars => AnswerInv'
    BY NextAnswers
  <1>2. Init => AnswerInv
    BY NoteStarts
  <1>3. LineInv /\ ReadInv /\ NoteInv /\ AnswerInv => Routed
    BY RoutedIs
  <1> QED
    BY <1>1, <1>2, <1>3, ReadInvHolds, NotesAlwaysTrue, PTL DEF Spec

(***************************************************************************)
(* http_parse_request_line takes no NUL: whatever it has read of a line it *)
(* has not refused is free of that byte, which os_http_validate_host would *)
(* decline and which would end a string early wherever one is read as a C  *)
(* string.  A schema that has an end has a beginning.                      *)
(***************************************************************************)
THEOREM NoNulTaken == Spec => []NulInv
  <1>1. LineInv /\ ReadInv /\ TellInv /\ NulInv /\ [Next]_vars => NulInv'
    BY NextNul
  <1>2. Init => NulInv
    BY NulStarts
  <1> QED
    BY <1>1, <1>2, ReadInvHolds, PointersAlwaysTell, PTL DEF Spec

(***************************************************************************)
(* An absolute target that the parser let through is refused for its host  *)
(* exactly when os_http_validate_host finds two dots in a row in it or no  *)
(* name without its last dot, for a host of any length and however the     *)
(* line was cut into calls; no other parsed line is refused.               *)
(***************************************************************************)
THEOREM HostAlwaysJudged == Spec => []HostVerdict
  <1>1. LineInv /\ AnswerInv /\ [Next]_vars => AnswerInv'
    BY NextAnswers
  <1>2. LineInv /\ AnswerInv /\ JudgeInv /\ [Next]_vars => JudgeInv'
    BY NextJudges
  <1>3. Init => AnswerInv /\ JudgeInv
    BY NoteStarts DEF Init, JudgeInv
  <1>4. ASSUME LineInv, ReadInv, TellInv, NulInv, JudgeInv PROVE HostVerdict
    <2>1. CASE rc = "OK" /\ answer \in {"BAD_REQUEST", "simple", "headers"}
      BY <1>4, <2>1, VerdictIs
    <2>2. CASE ~ (rc = "OK" /\ answer \in {"BAD_REQUEST", "simple", "headers"})
      BY <2>2, Zenon DEF HostVerdict
    <2> QED
      BY <2>1, <2>2
  <1> QED
    BY <1>1, <1>2, <1>3, <1>4, ReadInvHolds, PointersAlwaysTell, NoNulTaken, PTL DEF Spec
=============================================================================
