------------------------------ MODULE MCHeaders ------------------------------
(***************************************************************************)
(* Headers with the hashes that hashstring gives, modulo MAXHASHTABLELEN.  *)
(* Names that are not in the table start at a bucket of each kind: one     *)
(* that is taken, the first of two that are, an empty one and the last.    *)
(***************************************************************************)
EXTENDS Headers

Unknown == {"at-31", "at-225", "at-300", "at-511"}

ShippedHash ==
  [n \in Names \cup Unknown |->
     CASE n = "Host" -> 31
    [] n = "Connection" -> 423
    [] n = "If-Modified-Since" -> 496
    [] n = "If-Unmodified-Since" -> 738
    [] n = "If-Match" -> 577
    [] n = "If-None-Match" -> 541
    [] n = "User-Agent" -> 952
    [] n = "Referer" -> 354
    [] n = "Content-Length" -> 417
    [] n = "Content-Type" -> 253
    [] n = "Range" -> 676
    [] n = "If-Range" -> 70
    [] n = "Transfer-Encoding" -> 225
    [] n = "Expect" -> 727
    [] n = "Upgrade" -> 594
    [] n = "Authorization" -> 172
    [] n = "Keep-Alive" -> 787
    [] n = "Cookie" -> 777
    [] n = "at-31" -> 31
    [] n = "at-225" -> 225
    [] n = "at-300" -> 300
    [] n = "at-511" -> 511]

Line(name, msie, has) == [name |-> name, msie |-> msie, has |-> has]

Engines == {"Opera", "Gecko/", "Chrome/", "Safari/", "Mac OS X", "Konqueror"}

Pairs == {{}} \cup {{a, b} : a, b \in Engines}

Agents ==
  {Line("User-Agent", "none", has) : has \in Pairs}
    \cup {Line("User-Agent", msie, has) :
             msie \in {"short", "4.", "6.", "6", "7."},
             has \in {{}, {"Opera"}, {"SV1"}, {"Gecko/"}}}

SomeLines ==
  Agents
    \cup {Line("Connection", "none", has) : has \in SUBSET {"close", "keep-alive"}}
    \cup {Line(name, "none", {}) :
             name \in {"Host", "If-Range", "Referer", "Range", "Cookie", "at-225"}}
===============================================================================
