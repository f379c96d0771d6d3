---------------------------- MODULE MCRequestLine ----------------------------
(***************************************************************************)
(* Small instances of RequestLine.  A client sends a fixed opening and     *)
(* then anything over an alphabet, so that every part of a request line is *)
(* explored without the bytes before it.                                   *)
(***************************************************************************)
EXTENDS RequestLine

From(opening, more, alphabet) ==
  [opening |-> opening, more |-> more, alphabet |-> alphabet]

Blank == {SP, CR, LF}

GetSlash == <<"G", "E", "T", SP, "/">>
GetSchema == <<"G", "E", "T", SP, "h", ":">>
GetHttp == GetSlash \o <<SP, "H", "T", "T", "P", "/">>

(* methods, blank lines before them and what follows the spaces *)
MethodClients ==
  { From(<<>>, 5, Blank \cup {"G", "_", "/", "a"}),
    From(<<"G", "E", "T">>, 5, Blank \cup {"T", "/", "%"}),
    From(<<"P", "U">>, 5, {"T", SP, "/", LF}) }

(* a path, its flags and the spaces in it *)
PathClients ==
  { From(GetSlash, 5, {SP, LF, "a", ".", "/", "+", "?"}),
    From(GetSlash, 4, Blank \cup {"a", "%", "#", "?", "H", NUL}),
    From(GetSlash \o <<"a", ".", "b">>, 5, {"/", ".", "+", "?", LF}) }

(* an absolute target, with a host, a literal, a port or a path *)
HostClients ==
  { From(GetSchema \o <<"/", "/">>, 5, {"a", ":", "1", "/", SP, LF}),
    From(GetSchema \o <<"/", "/">>, 5, {"A", ".", "/", LF}),
    From(GetSchema \o <<"/", "/", "[">>, 4, {".", "]", "/", LF}),
    From(GetSchema \o <<"/", "/", "[">>, 4, {"a", "]", ":", "/", SP, "H", LF}),
    From(GetSchema \o <<"/", "/", "a", SP>>, 4, Blank \cup {"H", "T", "a"}),
    From(GetSchema, 3, {"/", "a", LF}) }

(* a protocol, with versions around the width of their fields *)
VersionClients ==
  { From(GetHttp, 5, {"0", "1", ".", SP, LF}),
    From(GetHttp \o <<"1", ".", "0">>, 4, {"0", "1", SP, CR, LF, "a"}),
    From(SubSeq(GetHttp, 1, 7), 4, {"T", "H", "P", "/"}),
    From(GetHttp \o <<"6", "5", "5", "3">>, 5, {"5", "6", ".", "9", LF}),
    From(GetHttp \o <<"6", "5", "5", "3", "6", ".", "9", "9">>, 3, {"0", "9", LF}),
    From(GetHttp \o <<"1", ".", "6", "5", "5", "3">>, 4, {"5", "6", CR, LF}) }

AllClients == MethodClients \cup PathClients \cup HostClients \cup VersionClients
=============================================================================
