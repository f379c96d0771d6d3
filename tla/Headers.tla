------------------------------- MODULE Headers -------------------------------
(***************************************************************************)
(* The header lines of a request, http.c: the table http_headers, the hash *)
(* table that http_init fills with it, and the handlers that put a line    *)
(* into headers_in.                                                        *)
(*                                                                         *)
(* What reads header lines is not in the repository yet: a line is looked  *)
(* up by its name, and the handler of the entry that is found is called,   *)
(* as the signature of header_parser says.                                 *)
(*                                                                         *)
(* A pointer to a header is the number of its line, 0 is NULL.  Of a value *)
(* there is left which of the words that the handlers look for it has, and *)
(* what comes after "MSIE ".                                               *)
(***************************************************************************)
EXTENDS HashTable, FiniteSets, Sequences

CONSTANTS
  Lines,     \* header lines that may come, [name, has, msie]
  MaxLines   \* bound: how many come

VARIABLES
  table,       \* the buckets of http_header_hashtable
  added,       \* how many entries of http_headers are in it
  lines,       \* the header lines so far
  headers_in   \* of the request

vars == <<table, added, lines, headers_in>>

Meta(name, offset, parser) == [name |-> name, offset |-> offset, parser |-> parser]

(* http_headers, as it is built without the optional headers *)
http_headers ==
  << Meta("Host", "host", "unique"),
     Meta("Connection", "connection", "connection"),
     Meta("If-Modified-Since", "if_modified_since", "unique"),
     Meta("If-Unmodified-Since", "if_unmodified_since", "unique"),
     Meta("If-Match", "if_match", "unique"),
     Meta("If-None-Match", "if_none_match", "unique"),
     Meta("User-Agent", "user_agent", "user_agent"),
     Meta("Referer", "referer", "line"),
     Meta("Content-Length", "content_length", "unique"),
     Meta("Content-Type", "content_type", "line"),
     Meta("Range", "range", "line"),
     Meta("If-Range", "if_range", "unique"),
     Meta("Transfer-Encoding", "transfer_encoding", "line"),
     Meta("Expect", "expect", "unique"),
     Meta("Upgrade", "upgrade", "line"),
     Meta("Authorization", "authorization", "unique"),
     Meta("Keep-Alive", "keep_alive", "line"),
     Meta("Cookie", "cookies", "multi") >>

Entries == 1 .. Len(http_headers)
(* With no more buckets taken than headers, one of the first ends a search. *)
Probes == 0 .. Len(http_headers)

Names == {http_headers[e].name : e \in Entries}
Offsets == {http_headers[e].offset : e \in Entries} \ {"cookies"}

ASSUME NamesAssumption == Names \subseteq DOMAIN Hash
ASSUME LinesAssumption ==
  MaxLines \in Nat /\ \A line \in Lines : line.name \in DOMAIN Hash

(***************************************************************************)
(* What the names of http_headers, hashstring and the size are chosen for: *)
(* from no bucket on start as many of the names as there are buckets, so   *)
(* the last one stays empty.  With one name more the table would be filled *)
(* to its end and a search could leave it.                                 *)
(***************************************************************************)
ASSUME SpreadAssumption ==
  \A b \in 0 .. Size - 1 : Cardinality({n \in Names : AddStart(n) >= b}) < Size - b

Browsers == {"msie", "msie6", "opera", "gecko", "chrome", "safari", "konqueror"}

Init ==
  /\ table = NoItems
  /\ added = 0
  /\ lines = <<>>
  /\ headers_in =
       [ptr |-> [o \in Offsets |-> 0], cookies |-> <<>>, connection_type |-> "none",
        is |-> {}]

(* The loop of http_header_hashtable_init: the next entry is added.  The   *)
(* table is never full.                                                    *)
AddHeader ==
  LET n == http_headers[added + 1].name IN
  /\ added < Len(http_headers)
  /\ \E i \in 0 .. Size - 1 :
       AddsAt(table, n, i) /\ table' = Put(table, AddBucket(n, i), n)
  /\ added' = added + 1
  /\ UNCHANGED <<lines, headers_in>>

-----------------------------------------------------------------------------
(* The handlers; k is the line, h its value *)

(* os_strstrn and os_strcasestrn *)
Has(h, word) == word \in h.has

(* A slip: the first line of its name is kept. *)
UniqueFirst(q, offset, k) ==
  [q EXCEPT !.ptr[offset] = IF @ = 0 THEN k ELSE @]

(* http_process_unique_header_line: a later line replaces an earlier one. *)
ProcessUnique(q, offset, k) == [q EXCEPT !.ptr[offset] = k]

(* http_process_header_line *)
ProcessLine(q, offset, k) == [q EXCEPT !.ptr[offset] = IF @ = 0 THEN k ELSE @]

(* http_process_multi_header_lines *)
ProcessMulti(q, k) == [q EXCEPT !.cookies = Append(@, k)]

(* http_process_connection: its pointer is not set. *)
ProcessConnection(q, h) ==
  [q EXCEPT !.connection_type =
     IF Has(h, "close") THEN "close"
     ELSE IF Has(h, "keep-alive") THEN "keep-alive" ELSE @]

(* "MSIE " with three bytes or more after it; and a version up to 6. *)
Msie(h) == h.msie \notin {"none", "short"}
Msie6(h) == h.msie \in {"4.", "5."} \/ (h.msie = "6." /\ ~ Has(h, "SV1"))

(* The browsers that are looked for only in what is neither of the others. *)
OtherBrowser(h) ==
  CASE Has(h, "Gecko/") -> {"gecko"}
    [] ~ Has(h, "Gecko/") /\ Has(h, "Chrome/") -> {"chrome"}
    [] ~ Has(h, "Gecko/") /\ ~ Has(h, "Chrome/")
         /\ Has(h, "Safari/") /\ Has(h, "Mac OS X") -> {"safari"}
    [] OTHER -> {b \in {"konqueror"} : Has(h, "Konqueror")}

ProcessUserAgent(q, h, k) ==
  IF q.ptr["user_agent"] # 0 THEN q
  ELSE [q EXCEPT !.ptr["user_agent"] = k,
                 !.is = IF Has(h, "Opera") THEN {"opera"}
                        ELSE IF Msie(h) THEN {"msie"} \cup {b \in {"msie6"} : Msie6(h)}
                        ELSE OtherBrowser(h)]

(* meta.header_parser(r, h, meta.offset) *)
Process(q, meta, h, k) ==
  CASE meta.parser = "unique" -> ProcessUnique(q, meta.offset, k)
    [] meta.parser = "line" -> ProcessLine(q, meta.offset, k)
    [] meta.parser = "multi" -> ProcessMulti(q, k)
    [] meta.parser = "connection" -> ProcessConnection(q, h)
    [] OTHER -> ProcessUserAgent(q, h, k)

EntryOf(name) == http_headers[CHOOSE e \in Entries : http_headers[e].name = name]

(* The next line: what the search for its name ends with decides. *)
HeaderLine ==
  /\ added = Len(http_headers)
  /\ Len(lines) < MaxLines
  /\ \E h \in Lines, i \in Probes :
       LET b == SearchBucket(h.name, i) IN
       /\ EndsAt(table, h.name, i)
       /\ lines' = Append(lines, h)
       /\ headers_in' = IF b \in DOMAIN table
                        THEN Process(headers_in, EntryOf(table[b]), h, Len(lines) + 1)
                        ELSE headers_in
  /\ UNCHANGED <<table, added>>

Next == AddHeader \/ HeaderLine

Spec == Init /\ [][Next]_vars

-----------------------------------------------------------------------------
(* What the code promises *)

TypeOK ==
  /\ DOMAIN table \subseteq 0 .. Size - 1
  /\ \A b \in DOMAIN table : table[b] \in Names
  /\ added \in 0 .. Len(http_headers)
  /\ lines \in Seq(Lines) /\ Len(lines) <= MaxLines
  /\ headers_in \in
       [ptr : [Offsets -> 0 .. Len(lines)], cookies : Seq(1 .. Len(lines)),
        connection_type : {"none", "close", "keep-alive"}, is : SUBSET Browsers]

(***************************************************************************)
(* A header that was added is found, one that was not is not, and a search *)
(* ends inside the table: although it wraps around at another bound than   *)
(* the insertions, which is beyond the last bucket.                        *)
(***************************************************************************)
LookupFinds ==
  \A n \in DOMAIN Hash, i \in Probes :
    EndsAt(table, n, i) =>
      /\ InTable(n, i)
      /\ SearchBucket(n, i) \in DOMAIN table
           <=> \E e \in 1 .. added : http_headers[e].name = n

(* The lines of a name, as the numbers of lines. *)
LinesOf(n) == {k \in 1 .. Len(lines) : lines[k].name = n}

(***************************************************************************)
(* headers_in is what the lines say, in whatever order they came: the last *)
(* line of a header that should be unique, the first of another, all the   *)
(* cookies in their order, the last Connection that is understood, and at  *)
(* most one browser, the one of the first User-Agent.                      *)
(***************************************************************************)
FieldsRight ==
  LET ptr == headers_in.ptr
      Last(S, k) == k \in S \cup {0} /\ \A j \in S : j <= k
      First(S, k) == IF S = {} THEN k = 0 ELSE k \in S /\ \A j \in S : k <= j
      understood == {k \in LinesOf("Connection") : lines[k].has \cap {"close", "keep-alive"} # {}}
      cookies == headers_in.cookies
  IN
  /\ \A e \in Entries :
       LET meta == http_headers[e] IN
       /\ meta.parser = "unique" => Last(LinesOf(meta.name), ptr[meta.offset])
       /\ meta.parser \in {"line", "user_agent"} =>
            First(LinesOf(meta.name), ptr[meta.offset])
  /\ {cookies[c] : c \in 1 .. Len(cookies)} = LinesOf("Cookie")
  /\ \A c \in 2 .. Len(cookies) : cookies[c - 1] < cookies[c]
  /\ \A k \in understood :
       Last(understood, k) =>
         (headers_in.connection_type = "close" <=> "close" \in lines[k].has)
  /\ headers_in.connection_type = "none" <=> understood = {}
  /\ \A a, b \in headers_in.is : a = b \/ {a, b} = {"msie", "msie6"}
  /\ "msie6" \in headers_in.is => "msie" \in headers_in.is
  /\ LinesOf("User-Agent") # {} =>
       LET h == lines[ptr["user_agent"]] IN
       /\ "opera" \in headers_in.is <=> "Opera" \in h.has
       /\ "msie" \in headers_in.is => "Opera" \notin h.has
       /\ "safari" \in headers_in.is => {"Safari/", "Mac OS X"} \subseteq h.has
       /\ "gecko" \in headers_in.is <=>
            "Gecko/" \in h.has /\ headers_in.is \cap {"opera", "msie"} = {}
===============================================================================
