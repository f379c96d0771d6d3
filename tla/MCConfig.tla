------------------------------ MODULE MCConfig ------------------------------
(***************************************************************************)
(* Four names: the port, the same name in other letters, which has the     *)
(* same hash, a name that shares only the bucket of the first table and    *)
(* one that shares only that of the second (100 - 1 keeps a bit of the     *)
(* hash that 1600 - 1 drops).  The first table is full at four entries.    *)
(***************************************************************************)
EXTENDS Config, TLC

CONSTANTS Twin, Near, Far

MCSlot ==
  (0 :> (Listen :> 0 @@ Twin :> 0 @@ Near :> 0 @@ Far :> 1))
  @@ (1 :> (Listen :> 0 @@ Twin :> 0 @@ Near :> 1 @@ Far :> 0))

L(text, words, more) == [text |-> text, words |-> words, more |-> more]
Good(k) == L("words", <<k, "INT", "value">>, FALSE)
Names == {Listen, Twin, Near, Far}

MCWord == Names \cup {"INT", "PORT", "value"}

OddLines ==
  {L("empty", <<>>, FALSE), L("comment", <<>>, FALSE),
   L("words", <<>>, FALSE), L("words", <<Listen>>, FALSE),
   L("words", <<Listen, "INT">>, FALSE), L("words", <<Listen, "PORT">>, FALSE),
   L("words", <<Listen, "PORT", "value">>, FALSE),
   L("words", <<Listen, "INT", "value">>, TRUE)}

FilesOf(S, n) == UNION {[1 .. k -> S] : k \in 0 .. n}

MCFiles ==
  FilesOf(OddLines \cup {Good(Listen), Good(Far)}, 4) \cup
  FilesOf({Good(k) : k \in Names}, 6)
=============================================================================
