------------------------------- MODULE HostName -------------------------------
(***************************************************************************)
(* os_http_validate_host of http_request.c: one scan over the bytes that   *)
(* the parser cut out of an absolute target.  The caller uses the verdict  *)
(* only; the name that is put in its local variable is dropped, and so are *)
(* its bytes here: what is left of it is its length.                       *)
(***************************************************************************)
EXTENDS Integers, Sequences

(* The locals of the scan: dot_pos, host_len, state, and a verdict. *)
Scanned(dot, len, state, declined) ==
  [dot |-> dot, len |-> len, state |-> state, declined |-> declined]

(* A slip: a dot is compared with the place it is at itself. *)
ScanSameDot(s, ch, i) ==
  CASE ch = "." -> [s EXCEPT !.dot = i, !.declined = @ \/ s.dot = i]
    [] OTHER -> s

(* The byte at index i, counted from 0. *)
ScanByte(s, ch, i) ==
  CASE ch = "." -> [s EXCEPT !.dot = i, !.declined = @ \/ s.dot = i - 1]
    [] ch = ":" /\ s.state = "usual" -> [s EXCEPT !.len = i, !.state = "rest"]
    [] ch = "[" /\ i = 0 -> [s EXCEPT !.state = "literal"]
    [] ch = "]" /\ s.state = "literal" -> [s EXCEPT !.len = i + 1, !.state = "rest"]
    [] ch \in {"NUL", "/"} -> [s EXCEPT !.declined = TRUE]
    [] OTHER -> s

Scan(h) ==
  LET after[n \in 0 .. Len(h)] ==
        IF n = 0 THEN Scanned(Len(h), Len(h), "usual", FALSE)
                 ELSE ScanByte(after[n - 1], h[n], n - 1)
  IN  after[Len(h)]

(* One dot at the end is not part of the name. *)
NameLength(h) ==
  LET s == Scan(h) IN IF s.dot = s.len - 1 THEN s.len - 1 ELSE s.len

(* OS_DECLINED *)
Declined(h) == Scan(h).declined \/ NameLength(h) = 0
===============================================================================
