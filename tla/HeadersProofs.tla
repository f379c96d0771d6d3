---------------------------- MODULE HeadersProofs ----------------------------
(***************************************************************************)
(* The header table for any hashes and sizes, and headers_in for any lines.*)
(*                                                                         *)
(* A search finds what was added because the last bucket stays empty.      *)
(* Then no insertion wraps around, so all the buckets between the start of *)
(* a name and the name itself are taken (Chain), and no search comes to    *)
(* the end of the table.  And it stays empty because the hashes spread the *)
(* names: a run of taken buckets up to the last one would need more names  *)
(* than start in it (LastStaysFree).                                       *)
(*                                                                         *)
(* What headers_in says of the lines is inductive as FieldsRight states it *)
(* (AllRight): each handler sets the field of its own row, from the line   *)
(* that comes last, and no two rows share a name or an offset.             *)
(***************************************************************************)
EXTENDS Headers, FiniteSetTheorems, WellFoundedInduction, TLAPS

LEMMA ModSmall ==
  ASSUME NEW m \in Nat \ {0}, NEW a \in 0 .. m - 1
  PROVE  a % m = a
  OBVIOUS

LEMMA StartFacts ==
  ASSUME NEW n \in DOMAIN Hash
  PROVE  AddStart(n) \in 0 .. Size - 1 /\ SearchStart(n) = AddStart(n)
  BY SizeAssumption, HashAssumption DEF AddStart, SearchStart

(* As long as it does not leave the table a search goes from bucket to next. *)
LEMMA SearchGoesOn ==
  ASSUME NEW n \in DOMAIN Hash, NEW i \in Nat, AddStart(n) + i < Size
  PROVE  SearchBucket(n, i) = AddStart(n) + i
  <1>1. AddStart(n) + i \in 0 .. MAXHASHTABLELEN - 1 /\ MAXHASHTABLELEN \in Nat \ {0}
    BY StartFacts, SizeAssumption
  <1> QED
    BY <1>1, ModSmall, StartFacts DEF SearchBucket

LEMMA AddGoesOn ==
  ASSUME NEW n \in DOMAIN Hash, NEW i \in Nat, AddStart(n) + i < Size
  PROVE  AddBucket(n, i) = AddStart(n) + i
  <1>1. AddStart(n) + i \in 0 .. Size - 1
    BY StartFacts, SizeAssumption
  <1> QED
    BY <1>1, ModSmall, SizeAssumption DEF AddBucket

-----------------------------------------------------------------------------
(* The table holds the headers that were added. *)

Added == {http_headers[e].name : e \in 1 .. added}

Filled ==
  /\ added \in 0 .. Len(http_headers)
  /\ DOMAIN table \subseteq 0 .. Size - 1
  /\ \A b \in DOMAIN table : table[b] \in Added
  /\ \A n \in Added : \E b \in DOMAIN table : table[b] = n

(* Nothing is free between the start of a name and the name. *)
Chain ==
  \A b \in DOMAIN table :
    /\ AddStart(table[b]) <= b
    /\ \A c \in AddStart(table[b]) .. b : c \in DOMAIN table

LastFree == Size - 1 \notin DOMAIN table

(* Seen as a sequence of Len(http_headers) entries; no proof needs more.   *)
LEMMA EntryFacts ==
  /\ Len(http_headers) \in Nat
  /\ \A e \in Entries : http_headers[e].name \in Names
  <1>1. Len(http_headers) = 18
    BY DEF http_headers
  <1> QED
    BY <1>1 DEF Names, Entries

(***************************************************************************)
(* The rows of http_headers.  Names and offsets are all different, and of  *)
(* the handlers for one header each there is no second row.                *)
(***************************************************************************)
LEMMA Rows ==
  /\ Entries = 1 .. 18
  /\ \A e \in Entries :
       http_headers[e].parser \in {"unique", "line", "multi", "connection", "user_agent"}
  <1>1. Len(http_headers) = 18
    BY DEF http_headers
  <1>2. \A e \in 1 .. 18 :
          http_headers[e].parser \in {"unique", "line", "multi", "connection", "user_agent"}
    BY DEF http_headers, Meta
  <1> QED
    BY <1>1, <1>2 DEF Entries

LEMMA NamesDiffer ==
  \A e, f \in Entries : http_headers[e].name = http_headers[f].name => e = f
  <1>1. \A e, f \in 1 .. 18 : http_headers[e].name = http_headers[f].name => e = f
    BY DEF http_headers, Meta
  <1> QED
    BY <1>1, Rows

LEMMA AddedFacts ==
  ASSUME added \in 0 .. Len(http_headers)
  PROVE  Added \subseteq Names /\ Added \subseteq DOMAIN Hash
  BY EntryFacts, NamesAssumption DEF Added, Entries

LEMMA AddStep ==
  ASSUME Filled, AddHeader,
         NEW n, n = http_headers[added + 1].name
  PROVE  /\ Filled'
         /\ \E i \in 0 .. Size - 1 :
              AddsAt(table, n, i) /\ table' = Put(table, AddBucket(n, i), n)
         /\ n \in DOMAIN Hash
  <1>1. n \in DOMAIN Hash /\ added + 1 \in Entries /\ Len(http_headers) \in Nat
    BY EntryFacts, NamesAssumption DEF AddHeader, Filled, Entries
  <1>2. PICK i \in 0 .. Size - 1 :
          AddsAt(table, n, i) /\ table' = Put(table, AddBucket(n, i), n)
    BY DEF AddHeader
  <1>3. AddBucket(n, i) \in 0 .. Size - 1
    BY <1>1, StartFacts, SizeAssumption DEF AddBucket
  <1>4. added' = added + 1 /\ Added' = Added \cup {n} /\ added' \in 0 .. Len(http_headers)
    BY <1>1 DEF AddHeader, Added, Filled
  <1> HIDE DEF Added
  <1>5. DOMAIN table' = DOMAIN table \cup {AddBucket(n, i)}
    BY <1>2 DEF Put
  <1>6. \A c \in DOMAIN table' : table'[c] = IF c = AddBucket(n, i) THEN n ELSE table[c]
    BY <1>2 DEF Put
  <1>7. AddBucket(n, i) \notin DOMAIN table
    BY <1>2 DEF AddsAt
  <1>8. Filled'
    BY <1>3, <1>4, <1>5, <1>6, <1>7 DEF Filled
  <1> QED
    BY <1>1, <1>2, <1>8

LEMMA FilledStep == Filled /\ [Next]_vars => Filled'
  <1> SUFFICES ASSUME Filled, [Next]_vars PROVE Filled'
    OBVIOUS
  <1>1. CASE AddHeader
    BY <1>1, AddStep
  <1>2. CASE HeaderLine \/ UNCHANGED vars
    BY <1>2 DEF HeaderLine, vars, Filled, Added
  <1> QED
    BY <1>1, <1>2 DEF Next

LEMMA ChainStep == Filled /\ Chain /\ LastFree /\ [Next]_vars => Chain'
  <1> SUFFICES ASSUME Filled, Chain, LastFree, [Next]_vars PROVE Chain'
    OBVIOUS
  <1>1. CASE AddHeader
    <2> DEFINE n == http_headers[added + 1].name
    <2>1. /\ \E i \in 0 .. Size - 1 :
               AddsAt(table, n, i) /\ table' = Put(table, AddBucket(n, i), n)
          /\ n \in DOMAIN Hash
      BY <1>1, AddStep
    <2> HIDE DEF n
    <2>2. PICK i \in 0 .. Size - 1 :
            AddsAt(table, n, i) /\ table' = Put(table, AddBucket(n, i), n)
      BY <2>1
    <2>3. AddStart(n) \in 0 .. Size - 1 /\ Size \in Nat
      BY <2>1, StartFacts, SizeAssumption
    <2>4. AddStart(n) + i < Size
      <3> SUFFICES ASSUME AddStart(n) + i >= Size PROVE FALSE
        BY <2>3
      <3>1. Size - 1 - AddStart(n) \in 0 .. i - 1
        BY <2>3
      <3>2. AddBucket(n, Size - 1 - AddStart(n)) = Size - 1
        BY <2>1, <2>3, <3>1, AddGoesOn
      <3> QED
        BY <2>2, <3>1, <3>2 DEF AddsAt, LastFree
    <2>5. AddBucket(n, i) = AddStart(n) + i
      BY <2>1, <2>4, AddGoesOn
    <2>6. ASSUME NEW c \in AddStart(n) .. AddStart(n) + i - 1 PROVE c \in DOMAIN table
      <3>1. c - AddStart(n) \in 0 .. i - 1
        BY <2>3
      <3>2. AddBucket(n, c - AddStart(n)) = c
        BY <2>1, <2>3, <2>4, <3>1, AddGoesOn
      <3> QED
        BY <2>2, <3>1, <3>2 DEF AddsAt
    <2>7. /\ DOMAIN table' = DOMAIN table \cup {AddStart(n) + i}
          /\ \A c \in DOMAIN table' : table'[c] = IF c = AddStart(n) + i THEN n ELSE table[c]
      BY <2>2, <2>5 DEF Put
    <2> SUFFICES ASSUME NEW b \in DOMAIN table'
                 PROVE  /\ AddStart(table'[b]) <= b
                        /\ \A c \in AddStart(table'[b]) .. b : c \in DOMAIN table'
      BY DEF Chain, AddStart
    <2>8. CASE b = AddStart(n) + i
      BY <2>3, <2>6, <2>7, <2>8
    <2>9. CASE b # AddStart(n) + i
      BY <2>7, <2>9 DEF Chain
    <2> QED
      BY <2>8, <2>9
  <1>2. CASE HeaderLine \/ UNCHANGED vars
    BY <1>2 DEF HeaderLine, vars, Chain, AddStart
  <1> QED
    BY <1>1, <1>2 DEF Next

-----------------------------------------------------------------------------
(* The last bucket stays empty. *)

Once == \A b, c \in DOMAIN table : table[b] = table[c] => b = c

(* An entry is added once, and the names of the entries are all different. *)
LEMMA OnceStep == Filled /\ Once /\ [Next]_vars => Once'
  <1> SUFFICES ASSUME Filled, Once, [Next]_vars PROVE Once'
    OBVIOUS
  <1>1. CASE AddHeader
    <2> DEFINE n == http_headers[added + 1].name
    <2>1. n \notin Added
      <3>1. added + 1 \in Entries /\ added + 1 \notin 1 .. added /\ 1 .. added \subseteq Entries
        BY <1>1, EntryFacts DEF AddHeader, Filled, Entries
      <3> QED
        BY <3>1, NamesDiffer DEF Added
    <2> HIDE DEF n
    <2>2. PICK i \in 0 .. Size - 1 :
            AddsAt(table, n, i) /\ table' = Put(table, AddBucket(n, i), n)
      BY <1>1 DEF AddHeader, n
    <2> DEFINE a == AddBucket(n, i)
    <2>3. /\ DOMAIN table' = DOMAIN table \cup {a}
          /\ \A c \in DOMAIN table' : table'[c] = IF c = a THEN n ELSE table[c]
      BY <2>2 DEF Put
    <2>4. \A b \in DOMAIN table : table[b] # n
      BY <2>1 DEF Filled
    <2> HIDE DEF a
    <2> QED
      BY <2>3, <2>4 DEF Once
  <1>2. CASE HeaderLine \/ UNCHANGED vars
    BY <1>2 DEF HeaderLine, vars, Once
  <1> QED
    BY <1>1, <1>2 DEF Next

LEMMA LeastExists ==
  ASSUME NEW T \in SUBSET Nat, T # {}
  PROVE  \E m \in T : \A k \in T : m <= k
  <1>1. PICK m \in T : \A k \in T : <<k, m>> \notin OpToRel(<, Nat)
    BY WFMin, NatLessThanWellFounded, Zenon
  <1>2. \A k \in T : ~ (k < m)
    BY <1>1, Zenon DEF OpToRel
  <1> QED
    BY <1>2

LEMMA NamesFinite == IsFiniteSet(Names)
  <1> DEFINE f == [e \in Entries |-> http_headers[e].name]
  <1>1. f \in Surjection(Entries, Names)
    BY DEF Surjection, Names
  <1>2. IsFiniteSet(Entries)
    BY EntryFacts, FS_Interval DEF Entries
  <1> QED
    BY <1>1, <1>2, FS_Surjection

(***************************************************************************)
(* If the last bucket were taken, all the names in the unbroken run of     *)
(* buckets that ends there would start in that run, since nothing is free  *)
(* between the start of a name and its bucket: as many names as buckets,   *)
(* which is more than the hashes let start there.                          *)
(***************************************************************************)
LEMMA LastStaysFree ==
  ASSUME Filled, Chain, Once
  PROVE  LastFree
  <1> SUFFICES ASSUME Size - 1 \in DOMAIN table PROVE FALSE
    BY DEF LastFree
  <1> DEFINE T == {m \in 0 .. Size - 1 : \A b \in m .. Size - 1 : b \in DOMAIN table}
  <1>1. Size \in Nat \ {0}
    BY SizeAssumption
  <1>2. Size - 1 \in T /\ T \in SUBSET Nat
    BY <1>1
  <1>3. PICK m \in T : \A k \in T : m <= k
    <2> HIDE DEF T
    <2> QED
      BY <1>2, LeastExists
  <1>4. m \in 0 .. Size - 1 /\ \A b \in m .. Size - 1 : b \in DOMAIN table
    OBVIOUS
  <1> DEFINE S == {n \in Names : AddStart(n) >= m}
             R == m .. Size - 1
  <1>5. ASSUME NEW b \in R PROVE table[b] \in S
    <2>1. table[b] \in Names /\ table[b] \in DOMAIN Hash /\ b \in DOMAIN table
      BY <1>4, AddedFacts DEF Filled
    <2>2. AddStart(table[b]) \in 0 .. Size - 1
      BY <2>1, StartFacts
    <2>3. \A c \in AddStart(table[b]) .. b : c \in DOMAIN table
      BY <2>1 DEF Chain
    <2>4. AddStart(table[b]) >= m
      <3> SUFFICES ASSUME AddStart(table[b]) < m PROVE FALSE
        BY <1>4, <2>2
      <3>1. m - 1 \in 0 .. Size - 1 /\ m - 1 \in AddStart(table[b]) .. b
        BY <1>1, <1>4, <2>2
      <3>2. \A c \in m - 1 .. Size - 1 : c \in DOMAIN table
        BY <1>1, <1>4, <2>3, <3>1
      <3>3. m - 1 \in T
        BY <3>1, <3>2
      <3> QED
        BY <1>3, <1>4, <3>3
    <2> QED
      BY <2>1, <2>4
  <1> HIDE DEF T
  <1> DEFINE f == [b \in R |-> table[b]]
  <1>6. f \in Injection(R, S)
    <2> HIDE DEF R, S
    <2>1. f \in [R -> S]
      BY <1>5
    <2>2. R \subseteq DOMAIN table
      BY <1>4 DEF R
    <2>3. \A b, c \in R : f[b] = f[c] => b = c
      BY <2>2 DEF Once
    <2> QED
      BY <2>1, <2>3 DEF Injection, IsInjective
  <1>7. IsFiniteSet(S)
    BY NamesFinite, FS_Subset
  <1>8. Cardinality(R) <= Cardinality(S)
    <2> HIDE DEF R, S, f
    <2> QED
      BY <1>6, <1>7, FS_Injection
  <1>9. Cardinality(R) = Size - m
    BY <1>1, <1>4, FS_Interval
  <1>10. Cardinality(S) < Size - m
    BY <1>4, SpreadAssumption
  <1>11. Cardinality(S) \in Nat
    <2> HIDE DEF S
    <2> QED
      BY <1>7, FS_CardinalityType
  <1> HIDE DEF R, S
  <1> QED
    BY <1>1, <1>4, <1>8, <1>9, <1>10, <1>11

(* What is in the table, and where. *)
TableInv == Filled /\ Chain /\ Once

LEMMA TableInit == Init => TableInv
  <1> SUFFICES ASSUME Init PROVE TableInv
    OBVIOUS
  <1>1. DOMAIN table = {} /\ added = 0
    BY DEF Init, NoItems
  <1>2. Added = {}
    BY <1>1 DEF Added
  <1> QED
    BY <1>1, <1>2, EntryFacts DEF TableInv, Filled, Chain, Once

LEMMA TableStep == TableInv /\ [Next]_vars => TableInv'
  BY FilledStep, ChainStep, OnceStep, LastStaysFree DEF TableInv

(***************************************************************************)
(* For the names and hashes of the program the last bucket of              *)
(* http_header_hashtable is never taken: no insertion of hashtable_add     *)
(* wraps around, and every search of hashtable_isexist comes to an end.    *)
(***************************************************************************)
THEOREM LastBucketFree == Spec => [](TableInv /\ LastFree)
  <1>1. TableInv => LastFree
    BY LastStaysFree DEF TableInv
  <1> QED
    BY <1>1, TableInit, TableStep, PTL DEF Spec

(***************************************************************************)
(* Where a search can end, when the last bucket is free: not beyond it,    *)
(* and not beyond the bucket of the name.                                  *)
(***************************************************************************)
LEMMA SearchEnds ==
  ASSUME Filled, Chain, LastFree, NEW n \in DOMAIN Hash, NEW i \in Nat, EndsAt(table, n, i)
  PROVE  /\ InTable(n, i)
         /\ SearchBucket(n, i) \in DOMAIN table <=> n \in Added
  <1>1. AddStart(n) \in 0 .. Size - 1 /\ Size \in Nat
    BY StartFacts, SizeAssumption
  <1>2. AddStart(n) + i < Size
    <2> SUFFICES ASSUME AddStart(n) + i >= Size PROVE FALSE
      BY <1>1
    <2>1. Size - 1 - AddStart(n) \in 0 .. i - 1
      BY <1>1
    <2>2. SearchBucket(n, Size - 1 - AddStart(n)) = Size - 1
      BY <1>1, <2>1, SearchGoesOn
    <2> QED
      BY <2>1, <2>2 DEF EndsAt, Ends, LastFree
  <1>3. InTable(n, i)
    <2> SUFFICES ASSUME NEW j \in 0 .. i PROVE SearchBucket(n, j) < Size
      BY DEF InTable
    <2> QED
      BY <1>1, <1>2, SearchGoesOn
  <1>4. SearchBucket(n, i) = AddStart(n) + i
    BY <1>2, SearchGoesOn
  <1>5. ASSUME SearchBucket(n, i) \in DOMAIN table PROVE n \in Added
    BY <1>5 DEF EndsAt, Ends, Filled
  <1>6. ASSUME n \in Added PROVE SearchBucket(n, i) \in DOMAIN table
    <2>1. PICK b \in DOMAIN table : table[b] = n
      BY <1>6 DEF Filled
    <2>2. b \in 0 .. Size - 1 /\ AddStart(n) <= b
          /\ \A c \in AddStart(n) .. b : c \in DOMAIN table
      BY <2>1 DEF Filled, Chain
    <2>3. SearchBucket(n, b - AddStart(n)) = b
      BY <1>1, <2>2, SearchGoesOn
    <2>4. i <= b - AddStart(n)
      <3> SUFFICES ASSUME i > b - AddStart(n) PROVE FALSE
        BY <1>1, <2>2
      <3>1. b - AddStart(n) \in 0 .. i - 1
        BY <1>1, <2>2
      <3> QED
        BY <2>1, <2>3, <3>1 DEF EndsAt, Ends
    <2> QED
      BY <1>1, <1>4, <2>2, <2>4
  <1> QED
    BY <1>3, <1>5, <1>6

(***************************************************************************)
(* hashtable_isexist finds the headers that were added and no others, and  *)
(* stays in the table, for every size, every bound MAXHASHTABLELEN that is *)
(* not smaller, and all hashes that spread the names as SpreadAssumption   *)
(* says.                                                                   *)
(***************************************************************************)
THEOREM LookupAlwaysFinds == Spec => []LookupFinds
  <1>1. Filled /\ Chain /\ LastFree => LookupFinds
    <2> SUFFICES ASSUME Filled, Chain, LastFree, NEW n \in DOMAIN Hash, NEW i \in Probes,
                        EndsAt(table, n, i)
                 PROVE  /\ InTable(n, i)
                        /\ SearchBucket(n, i) \in DOMAIN table
                             <=> \E e \in 1 .. added : http_headers[e].name = n
      BY DEF LookupFinds
    <2>1. i \in Nat
      BY EntryFacts DEF Probes
    <2>2. n \in Added <=> \E e \in 1 .. added : http_headers[e].name = n
      BY DEF Added
    <2> QED
      BY <2>1, <2>2, SearchEnds
  <1> QED
    BY <1>1, LastBucketFree, PTL DEF TableInv

-----------------------------------------------------------------------------
(* headers_in keeps its type, whichever handler runs. *)

HeadersIn(k) ==
  [ptr : [Offsets -> 0 .. k], cookies : Seq(1 .. k),
   connection_type : {"none", "close", "keep-alive"}, is : SUBSET Browsers]

LEMMA OffsetFacts ==
  /\ "user_agent" \in Offsets
  /\ \A e \in Entries :
       http_headers[e].parser \in {"unique", "line"} => http_headers[e].offset \in Offsets
  <1>1. Len(http_headers) = 18
    BY DEF http_headers
  <1>2. http_headers[7].offset = "user_agent"
    BY DEF http_headers, Meta
  <1>3. ASSUME NEW e \in 1 .. 18, http_headers[e].parser \in {"unique", "line"}
        PROVE  http_headers[e].offset # "cookies"
    BY <1>3 DEF http_headers, Meta
  <1> QED
    BY <1>1, <1>2, <1>3 DEF Offsets, Entries

LEMMA MoreLines ==
  ASSUME NEW k \in Nat
  PROVE  HeadersIn(k) \subseteq HeadersIn(k + 1)
  <1>1. 0 .. k \subseteq 0 .. k + 1 /\ 1 .. k \subseteq 1 .. k + 1
    OBVIOUS
  <1>2. [Offsets -> 0 .. k] \subseteq [Offsets -> 0 .. k + 1]
    BY <1>1
  <1>3. Seq(1 .. k) \subseteq Seq(1 .. k + 1)
    BY <1>1
  <1> QED
    BY <1>2, <1>3 DEF HeadersIn

LEMMA HeadersParts ==
  ASSUME NEW k \in Nat, NEW ptr \in [Offsets -> 0 .. k], NEW cookies \in Seq(1 .. k),
         NEW type \in {"none", "close", "keep-alive"}, NEW is \in SUBSET Browsers
  PROVE  [ptr |-> ptr, cookies |-> cookies, connection_type |-> type, is |-> is] \in HeadersIn(k)
  BY DEF HeadersIn

LEMMA HeadersRecord ==
  ASSUME NEW k \in Nat, NEW q \in HeadersIn(k)
  PROVE  q = [ptr |-> q.ptr, cookies |-> q.cookies,
              connection_type |-> q.connection_type, is |-> q.is]
  BY DEF HeadersIn

LEMMA SetPointer ==
  ASSUME NEW k \in Nat, NEW f \in [Offsets -> 0 .. k], NEW o \in Offsets, NEW v \in 0 .. k
  PROVE  [f EXCEPT ![o] = v] \in [Offsets -> 0 .. k]
  OBVIOUS

LEMMA ProcessKeepsType ==
  ASSUME NEW k \in Nat \ {0}, NEW q \in HeadersIn(k), NEW e \in Entries, NEW h
  PROVE  Process(q, http_headers[e], h, k) \in HeadersIn(k)
  <1> DEFINE meta == http_headers[e]
             R(ptr, cookies, type, is) ==
               [ptr |-> ptr, cookies |-> cookies, connection_type |-> type, is |-> is]
  <1>1. meta.parser \in {"unique", "line"} => meta.offset \in Offsets
    BY OffsetFacts
  <1>2. OtherBrowser(h) \subseteq Browsers
    BY DEF OtherBrowser, Browsers
  <1>q. q = R(q.ptr, q.cookies, q.connection_type, q.is)
    BY HeadersRecord
  <1>p. /\ q.ptr \in [Offsets -> 0 .. k]
        /\ q.cookies \in Seq(1 .. k)
        /\ q.connection_type \in {"none", "close", "keep-alive"}
        /\ q.is \in SUBSET Browsers
    BY DEF HeadersIn
  <1>k. k \in Nat /\ k \in 0 .. k /\ k \in 1 .. k
    OBVIOUS
  <1>o. ASSUME NEW o \in Offsets
        PROVE  [q EXCEPT !.ptr[o] = k] \in HeadersIn(k)
    <2>1. [q.ptr EXCEPT ![o] = k] \in [Offsets -> 0 .. k]
      BY <1>p, <1>k, SetPointer
    <2>2. [q EXCEPT !.ptr[o] = k]
            = R([q.ptr EXCEPT ![o] = k], q.cookies, q.connection_type, q.is)
      BY <1>q
    <2> HIDE DEF R
    <2>3. R([q.ptr EXCEPT ![o] = k], q.cookies, q.connection_type, q.is) \in HeadersIn(k)
      BY <1>p, <1>k, <2>1, HeadersParts DEF R
    <2> QED
      BY <2>2, <2>3
  <1>c. ASSUME NEW cookies \in Seq(1 .. k)
        PROVE  R(q.ptr, cookies, q.connection_type, q.is) \in HeadersIn(k)
    BY <1>p, <1>k, HeadersParts
  <1>i. ASSUME NEW is \in SUBSET Browsers, NEW p \in [Offsets -> 0 .. k]
        PROVE  R(p, q.cookies, q.connection_type, is) \in HeadersIn(k)
    BY <1>p, <1>k, HeadersParts
  <1>3. ProcessUserAgent(q, h, k) \in HeadersIn(k)
    <2> DEFINE is == IF Has(h, "Opera") THEN {"opera"}
                     ELSE IF Msie(h) THEN {"msie"} \cup {b \in {"msie6"} : Msie6(h)}
                     ELSE OtherBrowser(h)
               ptr == [q.ptr EXCEPT !["user_agent"] = k]
    <2>1. is \in SUBSET Browsers
      BY <1>2 DEF Browsers
    <2>2. ptr \in [Offsets -> 0 .. k]
      BY <1>p, <1>k, OffsetFacts, SetPointer
    <2>3. ASSUME NEW js
          PROVE  [q EXCEPT !.ptr["user_agent"] = k, !.is = js]
                   = R(ptr, q.cookies, q.connection_type, js)
      <3>1. [q EXCEPT !.ptr["user_agent"] = k] = R(ptr, q.cookies, q.connection_type, q.is)
        BY <1>q
      <3>2. [q EXCEPT !.ptr["user_agent"] = k, !.is = js]
              = [[q EXCEPT !.ptr["user_agent"] = k] EXCEPT !.is = js]
        OBVIOUS
      <3> HIDE DEF ptr
      <3>3. [R(ptr, q.cookies, q.connection_type, q.is) EXCEPT !.is = js]
              = R(ptr, q.cookies, q.connection_type, js)
        OBVIOUS
      <3> QED
        BY <3>1, <3>2, <3>3, Zenon
    <2> HIDE DEF is
    <2>4. [q EXCEPT !.ptr["user_agent"] = k, !.is = is]
            = R(ptr, q.cookies, q.connection_type, is)
      BY <2>3, Zenon
    <2> HIDE DEF ptr
    <2>5. R(ptr, q.cookies, q.connection_type, is) \in HeadersIn(k)
      BY <1>i, <2>1, <2>2
    <2> QED
      BY <2>4, <2>5 DEF ProcessUserAgent, is
  <1>4. ProcessConnection(q, h) \in HeadersIn(k)
    BY DEF ProcessConnection, HeadersIn
  <1>5. ProcessMulti(q, k) \in HeadersIn(k)
    <2>1. Append(q.cookies, k) \in Seq(1 .. k)
      BY <1>p, <1>k
    <2>2. ProcessMulti(q, k) = R(q.ptr, Append(q.cookies, k), q.connection_type, q.is)
      <3>1. ASSUME NEW c
            PROVE  [q EXCEPT !.cookies = c] = R(q.ptr, c, q.connection_type, q.is)
        BY <1>q
      <3> HIDE DEF R
      <3> QED
        BY <3>1, Zenon DEF ProcessMulti
    <2>3. R(q.ptr, Append(q.cookies, k), q.connection_type, q.is) \in HeadersIn(k)
      BY <1>c, <2>1
    <2> QED
      BY <2>2, <2>3
  <1>6. CASE meta.parser \in {"unique", "line"}
    <2>1. ProcessUnique(q, meta.offset, k) \in HeadersIn(k)
      BY <1>1, <1>6, <1>o DEF ProcessUnique
    <2>2. CASE q.ptr[meta.offset] = 0
      <3>1. ProcessLine(q, meta.offset, k) = ProcessUnique(q, meta.offset, k)
        BY <2>2 DEF ProcessLine, ProcessUnique
      <3> QED
        BY <1>6, <2>1, <3>1 DEF Process
    <2>3. CASE q.ptr[meta.offset] # 0
      <3>1. [q.ptr EXCEPT ![meta.offset] = q.ptr[meta.offset]] = q.ptr
        BY <1>p
      <3>2. ProcessLine(q, meta.offset, k)
              = R([q.ptr EXCEPT ![meta.offset] = q.ptr[meta.offset]],
                  q.cookies, q.connection_type, q.is)
        BY <1>q, <2>3 DEF ProcessLine
      <3>3. ProcessLine(q, meta.offset, k) = q
        BY <1>q, <3>1, <3>2
      <3> QED
        BY <1>6, <2>1, <3>3 DEF Process
    <2> QED
      BY <2>2, <2>3
  <1>7. CASE meta.parser \notin {"unique", "line"}
    BY <1>3, <1>4, <1>5, <1>7 DEF Process
  <1> QED
    BY <1>6, <1>7

LEMMA LineKeepsType ==
  ASSUME Filled, lines \in Seq(Lines), headers_in \in HeadersIn(Len(lines)), HeaderLine
  PROVE  /\ lines' \in Seq(Lines) /\ Len(lines') = Len(lines) + 1
         /\ headers_in' \in HeadersIn(Len(lines) + 1)
  <1> DEFINE k == Len(lines) + 1
  <1>1. PICK h \in Lines, i \in Probes :
          LET b == SearchBucket(h.name, i) IN
          /\ lines' = Append(lines, h)
          /\ headers_in' = IF b \in DOMAIN table
                           THEN Process(headers_in, EntryOf(table[b]), h, k)
                           ELSE headers_in
    BY DEF HeaderLine
  <1>2. headers_in \in HeadersIn(k) /\ k \in Nat \ {0}
    BY MoreLines
  <1>3. ASSUME NEW b \in DOMAIN table
        PROVE  \E e \in Entries : EntryOf(table[b]) = http_headers[e]
    <2>1. table[b] \in Names
      BY AddedFacts DEF Filled
    <2>2. \E e \in Entries : http_headers[e].name = table[b]
      BY <2>1 DEF Names
    <2> QED
      BY <2>2 DEF EntryOf
  <1> HIDE DEF k
  <1>4. headers_in' \in HeadersIn(k)
    BY <1>1, <1>2, <1>3, ProcessKeepsType
  <1> QED
    BY <1>1, <1>4 DEF k

TypedInv ==
  /\ Filled
  /\ lines \in Seq(Lines) /\ Len(lines) <= MaxLines
  /\ headers_in \in HeadersIn(Len(lines))

LEMMA TypedInit == Init => TypedInv
  <1> SUFFICES ASSUME Init PROVE TypedInv
    OBVIOUS
  <1>1. DOMAIN table = {} /\ added = 0
    BY DEF Init, NoItems
  <1>2. Added = {}
    BY <1>1 DEF Added
  <1>3. Filled
    BY <1>1, <1>2, EntryFacts DEF Filled
  <1>4. lines \in Seq(Lines) /\ Len(lines) = 0 /\ Len(lines) <= MaxLines
    BY LinesAssumption DEF Init
  <1>5. headers_in \in HeadersIn(0)
    BY DEF Init, HeadersIn
  <1> QED
    BY <1>3, <1>4, <1>5 DEF TypedInv

LEMMA TypedStep == TypedInv /\ [Next]_vars => TypedInv'
  <1> SUFFICES ASSUME TypedInv, [Next]_vars PROVE TypedInv'
    OBVIOUS
  <1>1. Filled'
    BY FilledStep DEF TypedInv
  <1>2. CASE AddHeader \/ UNCHANGED vars
    BY <1>1, <1>2 DEF AddHeader, vars, TypedInv, HeadersIn
  <1>3. CASE HeaderLine
    <2>1. Len(lines) < MaxLines
      BY <1>3 DEF HeaderLine
    <2> QED
      BY <1>1, <1>3, <2>1, LineKeepsType, LinesAssumption DEF TypedInv
  <1> QED
    BY <1>2, <1>3 DEF Next

(***************************************************************************)
(* The table has only names of http_headers in its buckets, and headers_in *)
(* only the numbers of lines that came.                                    *)
(***************************************************************************)
THEOREM HeadersTyped == Spec => []TypeOK
  <1>1. TypedInv => TypeOK
    <2> SUFFICES ASSUME TypedInv PROVE TypeOK
      OBVIOUS
    <2>1. \A b \in DOMAIN table : table[b] \in Names
      BY AddedFacts DEF TypedInv, Filled
    <2> QED
      BY <2>1 DEF TypedInv, TypeOK, Filled, HeadersIn
  <1> QED
    BY TypedInit, TypedStep, <1>1, PTL DEF Spec

-----------------------------------------------------------------------------
(* headers_in against the lines: which row a line is for, and what it sets. *)

LEMMA OffsetsDiffer ==
  \A e, f \in Entries : http_headers[e].offset = http_headers[f].offset => e = f
  <1>1. \A e, f \in 1 .. 18 : http_headers[e].offset = http_headers[f].offset => e = f
    BY DEF http_headers, Meta
  <1> QED
    BY <1>1, Rows

LEMMA OwnRows ==
  \A e \in Entries :
    /\ http_headers[e].parser = "multi" <=> http_headers[e].name = "Cookie"
    /\ http_headers[e].parser = "connection" <=> http_headers[e].name = "Connection"
    /\ http_headers[e].parser = "user_agent" <=> http_headers[e].name = "User-Agent"
    /\ http_headers[e].parser = "user_agent" <=> http_headers[e].offset = "user_agent"
  <1>1. \A e \in 1 .. 18 :
          /\ http_headers[e].parser = "multi" <=> http_headers[e].name = "Cookie"
          /\ http_headers[e].parser = "connection" <=> http_headers[e].name = "Connection"
          /\ http_headers[e].parser = "user_agent" <=> http_headers[e].name = "User-Agent"
          /\ http_headers[e].parser = "user_agent" <=> http_headers[e].offset = "user_agent"
    BY DEF http_headers, Meta
  <1> QED
    BY <1>1, Rows

(* The row of a name is the one that its search ends with. *)
LEMMA RowOf ==
  ASSUME NEW e \in Entries
  PROVE  EntryOf(http_headers[e].name) = http_headers[e]
  BY NamesDiffer DEF EntryOf

(* What Connection and User-Agent say of the connection and the browser. *)
Understood(h) == h.has \cap {"close", "keep-alive"} # {}

TypeOf(h, before) ==
  IF Has(h, "close") THEN "close" ELSE IF Has(h, "keep-alive") THEN "keep-alive" ELSE before

BrowserOf(h) ==
  IF Has(h, "Opera") THEN {"opera"}
  ELSE IF Msie(h) THEN {"msie"} \cup {b \in {"msie6"} : Msie6(h)}
  ELSE OtherBrowser(h)

OneMore(cookies, k) == Append(cookies, k)

(* Line k is for the row meta: whether the pointer of the row becomes k. *)
Points(q, meta) ==
  \/ meta.parser = "unique"
  \/ meta.parser \in {"line", "user_agent"} /\ q.ptr[meta.offset] = 0

(***************************************************************************)
(* The handlers, field by field: a line sets the pointer of its own row    *)
(* only, and the other fields are each set by one handler.                 *)
(***************************************************************************)
LEMMA Handled ==
  ASSUME NEW k \in Nat \ {0}, NEW q \in HeadersIn(k), NEW e \in Entries, NEW h,
         NEW r, r = Process(q, http_headers[e], h, k)
  PROVE  LET meta == http_headers[e] IN
         /\ \A o \in Offsets :
              r.ptr[o] = IF o = meta.offset /\ Points(q, meta) THEN k ELSE q.ptr[o]
         /\ r.cookies = IF meta.parser = "multi" THEN OneMore(q.cookies, k) ELSE q.cookies
         /\ r.connection_type = IF meta.parser = "connection"
                                THEN TypeOf(h, q.connection_type) ELSE q.connection_type
         /\ r.is = IF meta.parser = "user_agent" /\ q.ptr["user_agent"] = 0
                   THEN BrowserOf(h) ELSE q.is
  <1> DEFINE meta == http_headers[e]
             R(ptr, cookies, type, is) ==
               [ptr |-> ptr, cookies |-> cookies, connection_type |-> type, is |-> is]
  <1>q. /\ q = R(q.ptr, q.cookies, q.connection_type, q.is)
        /\ q.ptr \in [Offsets -> 0 .. k]
    BY HeadersRecord DEF HeadersIn
  <1>f. ASSUME NEW ptr, NEW cookies, NEW type, NEW is
        PROVE  /\ R(ptr, cookies, type, is).ptr = ptr
               /\ R(ptr, cookies, type, is).cookies = cookies
               /\ R(ptr, cookies, type, is).connection_type = type
               /\ R(ptr, cookies, type, is).is = is
    OBVIOUS
  <1>o. meta.parser \in {"unique", "line"} => meta.offset \in Offsets
    BY OffsetFacts
  <1>u. "user_agent" \in Offsets
    BY OffsetFacts
  <1>w. meta.parser = "user_agent" <=> meta.offset = "user_agent"
    BY OwnRows
  <1>1. CASE meta.parser = "unique"
    <2>1. r = R([q.ptr EXCEPT ![meta.offset] = k], q.cookies, q.connection_type, q.is)
      BY <1>1, <1>q DEF Process, ProcessUnique
    <2> HIDE DEF R, meta
    <2> QED
      BY <1>1, <1>f, <1>o, <1>q, <2>1 DEF Points, meta
  <1>2. CASE meta.parser = "line"
    <2>1. r = R([q.ptr EXCEPT ![meta.offset] = IF q.ptr[meta.offset] = 0 THEN k
                                               ELSE q.ptr[meta.offset]],
                q.cookies, q.connection_type, q.is)
      BY <1>2, <1>q DEF Process, ProcessLine
    <2> HIDE DEF R, meta
    <2> QED
      BY <1>2, <1>f, <1>o, <1>q, <2>1 DEF Points, meta
  <1>3. CASE meta.parser = "multi"
    <2>1. r = ProcessMulti(q, k)
      BY <1>3 DEF Process
    <2>2. r = R(q.ptr, Append(q.cookies, k), q.connection_type, q.is)
      <3>1. ASSUME NEW c
            PROVE  [q EXCEPT !.cookies = c] = R(q.ptr, c, q.connection_type, q.is)
        BY <1>q
      <3> HIDE DEF R
      <3> QED
        BY <2>1, <3>1, Zenon DEF ProcessMulti
    <2> HIDE DEF R
    <2>3. r.ptr = q.ptr /\ r.connection_type = q.connection_type /\ r.is = q.is
      BY <1>f, <2>2
    <2>4. r.cookies = OneMore(q.cookies, k)
      <3> DEFINE c == Append(q.cookies, k)
      <3>1. r = R(q.ptr, c, q.connection_type, q.is)
        BY <2>2
      <3> HIDE DEF c
      <3>2. r.cookies = c
        BY <1>f, <3>1
      <3> QED
        BY <3>2 DEF c, OneMore
    <2>5. \A o \in Offsets :
            r.ptr[o] = IF o = meta.offset /\ Points(q, meta) THEN k ELSE q.ptr[o]
      BY <1>3, <2>3 DEF Points
    <2> QED
      BY <1>3, <2>3, <2>4, <2>5
  <1>4. CASE meta.parser = "connection"
    <2>1. r = R(q.ptr, q.cookies, TypeOf(h, q.connection_type), q.is)
      BY <1>4, <1>q DEF Process, ProcessConnection, TypeOf
    <2> HIDE DEF R, meta
    <2> QED
      BY <1>4, <1>f, <2>1 DEF Points, meta
  <1>5. CASE meta.parser = "user_agent"
    <2>1. r = ProcessUserAgent(q, h, k)
      BY <1>5 DEF Process
    <2>2. CASE q.ptr["user_agent"] # 0
      <3>1. r = q
        BY <2>1, <2>2 DEF ProcessUserAgent
      <3> QED
        BY <1>5, <1>w, <2>2, <3>1 DEF Points
    <2>3. CASE q.ptr["user_agent"] = 0
      <3> DEFINE ptr == [q.ptr EXCEPT !["user_agent"] = k]
      <3>1. r = [q EXCEPT !.ptr["user_agent"] = k, !.is = BrowserOf(h)]
        BY <2>1, <2>3 DEF ProcessUserAgent, BrowserOf
      <3>2. ASSUME NEW js
            PROVE  [q EXCEPT !.ptr["user_agent"] = k, !.is = js]
                     = R(ptr, q.cookies, q.connection_type, js)
        <4>1. [q EXCEPT !.ptr["user_agent"] = k] = R(ptr, q.cookies, q.connection_type, q.is)
          BY <1>q
        <4>2. [q EXCEPT !.ptr["user_agent"] = k, !.is = js]
                = [[q EXCEPT !.ptr["user_agent"] = k] EXCEPT !.is = js]
          OBVIOUS
        <4> HIDE DEF ptr
        <4>3. [R(ptr, q.cookies, q.connection_type, q.is) EXCEPT !.is = js]
                = R(ptr, q.cookies, q.connection_type, js)
          OBVIOUS
        <4> QED
          BY <4>1, <4>2, <4>3, Zenon
      <3>3. r = R(ptr, q.cookies, q.connection_type, BrowserOf(h))
        BY <3>1, <3>2, Zenon
      <3> HIDE DEF R, meta
      <3> QED
        BY <1>5, <1>f, <1>q, <1>u, <1>w, <2>3, <3>3 DEF Points, meta
    <2> QED
      BY <2>2, <2>3
  <1> QED
    BY <1>1, <1>2, <1>3, <1>4, <1>5, Rows
(* The same, of the first line after n. *)
LEMMA PointersHandled ==
  ASSUME NEW n \in Nat, NEW k, k = n + 1, NEW q \in HeadersIn(n), NEW e \in Entries, NEW h,
         NEW r, r = Process(q, http_headers[e], h, k)
  PROVE  \A o \in Offsets :
           r.ptr[o] = IF o = http_headers[e].offset /\ Points(q, http_headers[e])
                      THEN k ELSE q.ptr[o]
  <1>1. k \in Nat \ {0} /\ q \in HeadersIn(k)
    BY MoreLines
  <1> QED
    BY <1>1, Handled

LEMMA CookiesHandled ==
  ASSUME NEW n \in Nat, NEW k, k = n + 1, NEW q \in HeadersIn(n), NEW e \in Entries, NEW h,
         NEW r, r = Process(q, http_headers[e], h, k)
  PROVE  r.cookies = IF http_headers[e].parser = "multi" THEN OneMore(q.cookies, k)
                     ELSE q.cookies
  <1>1. k \in Nat \ {0} /\ q \in HeadersIn(k)
    BY MoreLines
  <1> QED
    BY <1>1, Handled

LEMMA ConnectionHandled ==
  ASSUME NEW n \in Nat, NEW k, k = n + 1, NEW q \in HeadersIn(n), NEW e \in Entries, NEW h,
         NEW r, r = Process(q, http_headers[e], h, k)
  PROVE  r.connection_type = IF http_headers[e].parser = "connection"
                             THEN TypeOf(h, q.connection_type) ELSE q.connection_type
  <1>1. k \in Nat \ {0} /\ q \in HeadersIn(k)
    BY MoreLines
  <1> QED
    BY <1>1, Handled

LEMMA BrowserHandled ==
  ASSUME NEW n \in Nat, NEW k, k = n + 1, NEW q \in HeadersIn(n), NEW e \in Entries, NEW h,
         NEW r, r = Process(q, http_headers[e], h, k)
  PROVE  r.is = IF http_headers[e].parser = "user_agent" /\ q.ptr["user_agent"] = 0
                THEN BrowserOf(h) ELSE q.is
  <1>1. k \in Nat \ {0} /\ q \in HeadersIn(k)
    BY MoreLines
  <1> QED
    BY <1>1, Handled

-----------------------------------------------------------------------------
(* The parts of FieldsRight, of any sequence of lines. *)

Named(ls, n) == {k \in 1 .. Len(ls) : ls[k].name = n}
LastOf(S, k) == k \in S \cup {0} /\ \A j \in S : j <= k
FirstOf(S, k) == IF S = {} THEN k = 0 ELSE k \in S /\ \A j \in S : k <= j

PointersRight(ptr, ls) ==
  \A e \in Entries :
    LET meta == http_headers[e] IN
    /\ meta.parser = "unique" => LastOf(Named(ls, meta.name), ptr[meta.offset])
    /\ meta.parser \in {"line", "user_agent"} =>
         FirstOf(Named(ls, meta.name), ptr[meta.offset])

CookiesRight(cookies, ls) ==
  /\ {cookies[c] : c \in 1 .. Len(cookies)} = Named(ls, "Cookie")
  /\ \A c \in 2 .. Len(cookies) : cookies[c - 1] < cookies[c]

ConnectionRight(type, ls) ==
  LET understood == {k \in Named(ls, "Connection") : Understood(ls[k])} IN
  /\ \A k \in understood :
       LastOf(understood, k) => (type = "close" <=> "close" \in ls[k].has)
  /\ type = "none" <=> understood = {}

BrowserRight(is, ptr, ls) ==
  /\ \A a, b \in is : a = b \/ {a, b} = {"msie", "msie6"}
  /\ "msie6" \in is => "msie" \in is
  /\ Named(ls, "User-Agent") # {} =>
       LET h == ls[ptr["user_agent"]] IN
       /\ "opera" \in is <=> "Opera" \in h.has
       /\ "msie" \in is => "Opera" \notin h.has
       /\ "safari" \in is => {"Safari/", "Mac OS X"} \subseteq h.has
       /\ "gecko" \in is <=> "Gecko/" \in h.has /\ is \cap {"opera", "msie"} = {}

AllRight(q, ls) ==
  /\ PointersRight(q.ptr, ls)
  /\ CookiesRight(q.cookies, ls)
  /\ ConnectionRight(q.connection_type, ls)
  /\ BrowserRight(q.is, q.ptr, ls)

LEMMA RightIsRight == FieldsRight <=> AllRight(headers_in, lines)
  BY DEF FieldsRight, AllRight, PointersRight, CookiesRight, ConnectionRight, BrowserRight,
         LinesOf, Named, LastOf, FirstOf, Understood

(* One more line is one more of its name, after the others. *)
LEMMA NamedGrows ==
  ASSUME NEW ls \in Seq(Lines), NEW h \in Lines, NEW n
  PROVE  /\ Named(ls, n) \subseteq 1 .. Len(ls)
         /\ Named(Append(ls, h), n) = IF h.name = n THEN Named(ls, n) \cup {Len(ls) + 1}
                                      ELSE Named(ls, n)
         /\ \A k \in 1 .. Len(ls) : Append(ls, h)[k] = ls[k]
         /\ Append(ls, h)[Len(ls) + 1] = h
  <1>1. /\ Len(Append(ls, h)) = Len(ls) + 1
        /\ \A k \in 1 .. Len(ls) : Append(ls, h)[k] = ls[k]
        /\ Append(ls, h)[Len(ls) + 1] = h
        /\ Len(ls) \in Nat
    OBVIOUS
  <1> DEFINE L == Append(ls, h)
  <1> HIDE DEF L
  <1>2. /\ Len(L) = Len(ls) + 1
        /\ \A k \in 1 .. Len(ls) : L[k] = ls[k]
        /\ L[Len(ls) + 1] = h
    BY <1>1 DEF L
  <1>3. Named(L, n) = IF h.name = n THEN Named(ls, n) \cup {Len(ls) + 1} ELSE Named(ls, n)
    BY <1>1, <1>2 DEF Named
  <1> QED
    BY <1>1, <1>3 DEF L, Named

LEMMA PointersStep ==
  ASSUME NEW ls \in Seq(Lines), NEW h \in Lines, NEW q \in HeadersIn(Len(ls)),
         NEW e \in Entries, h.name = http_headers[e].name,
         NEW k, k = Len(ls) + 1, NEW r, r = Process(q, http_headers[e], h, k),
         PointersRight(q.ptr, ls)
  PROVE  PointersRight(r.ptr, Append(ls, h))
  <1>1. k \in Nat \ {0} /\ q \in HeadersIn(k) /\ Len(ls) \in Nat
    BY MoreLines
  <1>2. \A o \in Offsets :
          r.ptr[o] = IF o = http_headers[e].offset /\ Points(q, http_headers[e])
                     THEN k ELSE q.ptr[o]
    BY <1>1, PointersHandled
  <1>3. ASSUME NEW f \in Entries,
               http_headers[f].parser \in {"unique", "line", "user_agent"}
        PROVE  LET meta == http_headers[f] IN
               /\ meta.parser = "unique" =>
                    LastOf(Named(Append(ls, h), meta.name), r.ptr[meta.offset])
               /\ meta.parser \in {"line", "user_agent"} =>
                    FirstOf(Named(Append(ls, h), meta.name), r.ptr[meta.offset])
    <2> DEFINE meta == http_headers[f]
               S == Named(ls, meta.name)
               p == q.ptr[meta.offset]
    <2>1. meta.offset \in Offsets
      BY <1>3, OffsetFacts, OwnRows
    <2>2. /\ meta.parser = "unique" => LastOf(S, p)
          /\ meta.parser \in {"line", "user_agent"} => FirstOf(S, p)
      BY DEF PointersRight
    <2>3. S \subseteq 1 .. Len(ls)
      BY NamedGrows
    <2>4. CASE f # e
      <3>1. Named(Append(ls, h), meta.name) = S
        BY <2>4, NamesDiffer, NamedGrows
      <3>2. r.ptr[meta.offset] = p
        BY <1>2, <2>1, <2>4, OffsetsDiffer
      <3> QED
        BY <2>2, <3>1, <3>2
    <2>5. CASE f = e
      <3>1. Named(Append(ls, h), meta.name) = S \cup {k}
        BY <2>5, NamedGrows
      <3>2. r.ptr[meta.offset] = IF meta.parser = "unique" \/ p = 0 THEN k ELSE p
        BY <1>2, <1>3, <2>1, <2>5 DEF Points
      <3> HIDE DEF S, p
      <3>3. ASSUME LastOf(S, p) PROVE LastOf(S \cup {k}, k)
        BY <1>1, <2>3 DEF LastOf
      <3>4. ASSUME FirstOf(S, p) PROVE FirstOf(S \cup {k}, IF p = 0 THEN k ELSE p)
        <4>1. CASE p = 0
          <5>1. S = {}
            BY <2>3, <3>4, <4>1 DEF FirstOf
          <5> QED
            BY <1>1, <4>1, <5>1 DEF FirstOf
        <4>2. CASE p # 0
          <5>1. S # {} /\ p \in S /\ \A j \in S : p <= j
            BY <3>4, <4>2 DEF FirstOf
          <5> QED
            BY <1>1, <2>3, <4>2, <5>1 DEF FirstOf
        <4> QED
          BY <4>1, <4>2
      <3> QED
        BY <2>2, <3>1, <3>2, <3>3, <3>4
    <2> QED
      BY <2>4, <2>5
  <1> QED
    BY <1>3 DEF PointersRight

LEMMA CookiesStep ==
  ASSUME NEW ls \in Seq(Lines), NEW h \in Lines, NEW q \in HeadersIn(Len(ls)),
         NEW e \in Entries, h.name = http_headers[e].name,
         NEW k, k = Len(ls) + 1, NEW r, r = Process(q, http_headers[e], h, k),
         CookiesRight(q.cookies, ls)
  PROVE  CookiesRight(r.cookies, Append(ls, h))
  <1> DEFINE c == q.cookies
  <1>k. k \in Nat \ {0} /\ q \in HeadersIn(k) /\ Len(ls) \in Nat
    BY MoreLines
  <1>c. c \in Seq(1 .. Len(ls))
    BY DEF HeadersIn
  <1>2. r.cookies = IF http_headers[e].parser = "multi" THEN OneMore(c, k) ELSE c
    BY <1>k, CookiesHandled
  <1> HIDE DEF c
  <1>3. {c[j] : j \in 1 .. Len(c)} = Named(ls, "Cookie")
        /\ \A j \in 2 .. Len(c) : c[j - 1] < c[j]
    BY DEF CookiesRight, c
  <1>4. CASE h.name # "Cookie"
    <2>1. r.cookies = c /\ Named(Append(ls, h), "Cookie") = Named(ls, "Cookie")
      BY <1>2, <1>4, OwnRows, NamedGrows
    <2> QED
      BY <1>3, <2>1 DEF CookiesRight
  <1>5. CASE h.name = "Cookie"
    <2>1. r.cookies = Append(c, k)
      BY <1>2, <1>5, OwnRows DEF OneMore
    <2>2. Named(Append(ls, h), "Cookie") = Named(ls, "Cookie") \cup {k}
      BY <1>5, NamedGrows
    <2> DEFINE d == Append(c, k)
    <2>3. /\ Len(d) = Len(c) + 1 /\ Len(c) \in Nat
          /\ \A j \in 1 .. Len(c) : d[j] = c[j] /\ c[j] \in 1 .. Len(ls)
          /\ d[Len(c) + 1] = k
      BY <1>k, <1>c
    <2> HIDE DEF d
    <2>4. {d[j] : j \in 1 .. Len(d)} = {c[j] : j \in 1 .. Len(c)} \cup {k}
      BY <2>3
    <2>5. ASSUME NEW j \in 2 .. Len(d) PROVE d[j - 1] < d[j]
      <3>1. CASE j \in 2 .. Len(c)
        BY <1>3, <2>3, <3>1
      <3>2. CASE j = Len(c) + 1
        BY <1>k, <2>3, <3>2
      <3> QED
        BY <1>k, <2>3, <3>1, <3>2
    <2>6. CookiesRight(d, Append(ls, h))
      BY <1>3, <2>2, <2>4, <2>5 DEF CookiesRight
    <2> QED
      BY <2>1, <2>6 DEF d
  <1> QED
    BY <1>4, <1>5
LEMMA ConnectionStep ==
  ASSUME NEW ls \in Seq(Lines), NEW h \in Lines, NEW q \in HeadersIn(Len(ls)),
         NEW e \in Entries, h.name = http_headers[e].name,
         NEW k, k = Len(ls) + 1, NEW r, r = Process(q, http_headers[e], h, k),
         ConnectionRight(q.connection_type, ls)
  PROVE  ConnectionRight(r.connection_type, Append(ls, h))
  <1> DEFINE type == q.connection_type
             N == Named(ls, "Connection")
             S == {j \in N : Understood(ls[j])}
             L == Append(ls, h)
             M == Named(L, "Connection")
             T == {j \in M : Understood(L[j])}
  <1>1. k \in Nat \ {0} /\ q \in HeadersIn(k) /\ Len(ls) \in Nat
    BY MoreLines
  <1>2. r.connection_type = IF h.name = "Connection" THEN TypeOf(h, type) ELSE type
    BY <1>1, ConnectionHandled, OwnRows
  <1>3. /\ N \subseteq 1 .. Len(ls)
        /\ M = IF h.name = "Connection" THEN N \cup {k} ELSE N
        /\ \A j \in 1 .. Len(ls) : L[j] = ls[j]
        /\ L[k] = h
    BY NamedGrows
  <1>4. /\ \A j \in S : LastOf(S, j) => (type = "close" <=> "close" \in ls[j].has)
        /\ type = "none" <=> S = {}
    BY DEF ConnectionRight
  <1>5. T = IF h.name = "Connection" /\ Understood(h) THEN S \cup {k} ELSE S
    <2> HIDE DEF N, M, L
    <2> QED
      BY <1>1, <1>3
  <1>6. S \subseteq 1 .. Len(ls)
    BY <1>3
  <1> SUFFICES /\ \A j \in T :
                    LastOf(T, j) => (r.connection_type = "close" <=> "close" \in L[j].has)
               /\ r.connection_type = "none" <=> T = {}
    BY DEF ConnectionRight
  <1> HIDE DEF N, M, L, S, T
  <1>7. CASE h.name = "Connection" /\ Understood(h)
    <2>1. /\ r.connection_type = "close" <=> "close" \in h.has
          /\ r.connection_type # "none"
      BY <1>2, <1>7 DEF Understood, TypeOf, Has
    <2>2. ASSUME NEW j \in T, LastOf(T, j) PROVE j = k
      BY <1>1, <1>5, <1>6, <1>7, <2>2 DEF LastOf
    <2> QED
      BY <1>3, <1>5, <1>7, <2>1, <2>2
  <1>8. CASE ~ (h.name = "Connection" /\ Understood(h))
    <2>1. r.connection_type = type /\ T = S
      BY <1>2, <1>5, <1>8 DEF Understood, TypeOf, Has
    <2> QED
      BY <1>3, <1>4, <1>6, <2>1
  <1> QED
    BY <1>7, <1>8

(* The browser flags of one User-Agent line. *)
LEMMA BrowserFacts ==
  ASSUME NEW h
  PROVE  LET is == BrowserOf(h) IN
         /\ \A a, b \in is : a = b \/ {a, b} = {"msie", "msie6"}
         /\ "msie6" \in is => "msie" \in is
         /\ "opera" \in is <=> "Opera" \in h.has
         /\ "msie" \in is => "Opera" \notin h.has
         /\ "safari" \in is => {"Safari/", "Mac OS X"} \subseteq h.has
         /\ "gecko" \in is <=> "Gecko/" \in h.has /\ is \cap {"opera", "msie"} = {}
  <1>1. CASE Has(h, "Opera")
    BY <1>1 DEF BrowserOf, Has
  <1>2. CASE ~ Has(h, "Opera") /\ Msie(h)
    BY <1>2 DEF BrowserOf, Has
  <1>3. CASE ~ Has(h, "Opera") /\ ~ Msie(h)
    BY <1>3 DEF BrowserOf, OtherBrowser, Has
  <1> QED
    BY <1>1, <1>2, <1>3

LEMMA AgentFirst ==
  ASSUME NEW ls, NEW ptr, PointersRight(ptr, ls)
  PROVE  FirstOf(Named(ls, "User-Agent"), ptr["user_agent"])
  <1>1. PICK f \in Entries : http_headers[f].name = "User-Agent"
    <2>1. http_headers[7].name = "User-Agent" /\ 7 \in 1 .. 18
      BY DEF http_headers, Meta
    <2> QED
      BY <2>1, Rows
  <1> QED
    BY <1>1, OwnRows DEF PointersRight

LEMMA BrowserStep ==
  ASSUME NEW ls \in Seq(Lines), NEW h \in Lines, NEW q \in HeadersIn(Len(ls)),
         NEW e \in Entries, h.name = http_headers[e].name,
         NEW k, k = Len(ls) + 1, NEW r, r = Process(q, http_headers[e], h, k),
         PointersRight(q.ptr, ls), BrowserRight(q.is, q.ptr, ls)
  PROVE  BrowserRight(r.is, r.ptr, Append(ls, h))
  <1> DEFINE S == Named(ls, "User-Agent")
             p == q.ptr["user_agent"]
             L == Append(ls, h)
  <1>1. k \in Nat \ {0} /\ q \in HeadersIn(k) /\ Len(ls) \in Nat /\ "user_agent" \in Offsets
    BY MoreLines, OffsetFacts
  <1>2. /\ r.ptr["user_agent"] = IF h.name = "User-Agent" /\ p = 0 THEN k ELSE p
        /\ r.is = IF h.name = "User-Agent" /\ p = 0 THEN BrowserOf(h) ELSE q.is
    <2> DEFINE meta == http_headers[e]
    <2>1. /\ r.ptr["user_agent"] = IF "user_agent" = meta.offset /\ Points(q, meta)
                                   THEN k ELSE p
          /\ r.is = IF meta.parser = "user_agent" /\ p = 0 THEN BrowserOf(h) ELSE q.is
      <3>1. \A o \in Offsets :
              r.ptr[o] = IF o = meta.offset /\ Points(q, meta) THEN k ELSE q.ptr[o]
        BY <1>1, PointersHandled
      <3>2. r.is = IF meta.parser = "user_agent" /\ q.ptr["user_agent"] = 0
                   THEN BrowserOf(h) ELSE q.is
        BY <1>1, BrowserHandled
      <3> QED
        BY <1>1, <3>1, <3>2, Zenon
    <2>2. /\ meta.parser = "user_agent" <=> h.name = "User-Agent"
          /\ meta.parser = "user_agent" <=> meta.offset = "user_agent"
      BY OwnRows
    <2> HIDE DEF meta
    <2>3. CASE h.name = "User-Agent"
      BY <2>1, <2>2, <2>3 DEF Points
    <2>4. CASE h.name # "User-Agent"
      BY <2>1, <2>2, <2>4
    <2> QED
      BY <2>3, <2>4
  <1>3. /\ S \subseteq 1 .. Len(ls)
        /\ Named(L, "User-Agent") = IF h.name = "User-Agent" THEN S \cup {k} ELSE S
        /\ \A j \in 1 .. Len(ls) : L[j] = ls[j]
        /\ L[k] = h
    BY NamedGrows
  <1>4. FirstOf(S, p)
    BY AgentFirst
  <1> HIDE DEF S, p, L
  <1>5. CASE h.name = "User-Agent" /\ p = 0
    <2>1. r.is = BrowserOf(h) /\ L[r.ptr["user_agent"]] = h
      BY <1>2, <1>3, <1>5
    <2>2. BrowserRight(BrowserOf(h), r.ptr, L)
      <3> DEFINE is == BrowserOf(h)
                 g == L[r.ptr["user_agent"]]
      <3>1. /\ \A a, b \in is : a = b \/ {a, b} = {"msie", "msie6"}
            /\ "msie6" \in is => "msie" \in is
        BY BrowserFacts, Zenon
      <3>2. /\ "opera" \in is <=> "Opera" \in g.has
            /\ "msie" \in is => "Opera" \notin g.has
            /\ "safari" \in is => {"Safari/", "Mac OS X"} \subseteq g.has
            /\ "gecko" \in is <=> "Gecko/" \in g.has /\ is \cap {"opera", "msie"} = {}
        <4>1. g = h
          BY <2>1
        <4> HIDE DEF g
        <4> QED
          BY <4>1, BrowserFacts
      <3> HIDE DEF is
      <3>3. BrowserRight(is, r.ptr, L)
        BY <3>1, <3>2, Zenon DEF BrowserRight
      <3> QED
        BY <3>3 DEF is
    <2> QED
      BY <2>1, <2>2, Zenon DEF L
  <1>6. CASE ~ (h.name = "User-Agent" /\ p = 0)
    <2>1. r.is = q.is /\ r.ptr["user_agent"] = p
      BY <1>2, <1>6
    <2>2. Named(L, "User-Agent") # {} => S # {}
      BY <1>3, <1>4, <1>6 DEF FirstOf
    <2>3. S # {} => L[p] = ls[p]
      BY <1>3, <1>4 DEF FirstOf
    <2>4. BrowserRight(q.is, r.ptr, L)
      BY <2>1, <2>2, <2>3 DEF BrowserRight, S, p
    <2> QED
      BY <2>1, <2>4 DEF L
  <1> QED
    BY <1>5, <1>6

(* A line that no row is for leaves headers_in as it is. *)
LEMMA NothingStep ==
  ASSUME NEW ls \in Seq(Lines), NEW h \in Lines, NEW q \in HeadersIn(Len(ls)),
         h.name \notin Names, AllRight(q, ls)
  PROVE  AllRight(q, Append(ls, h))
  <1> DEFINE L == Append(ls, h)
  <1>1. {"Cookie", "Connection", "User-Agent"} \subseteq Names
    <2>1. /\ http_headers[18].name = "Cookie" /\ http_headers[2].name = "Connection"
          /\ http_headers[7].name = "User-Agent"
          /\ {2, 7, 18} \subseteq 1 .. 18
      BY DEF http_headers, Meta
    <2> QED
      BY <2>1, Rows DEF Names
  <1>2. \A n \in Names : Named(L, n) = Named(ls, n)
    BY NamedGrows
  <1>3. \A n : Named(ls, n) \subseteq 1 .. Len(ls)
    BY NamedGrows
  <1>4. \A k \in 1 .. Len(ls) : L[k] = ls[k]
    BY NamedGrows
  <1> HIDE DEF L
  <1>5. PointersRight(q.ptr, L)
    BY <1>2 DEF PointersRight, AllRight, Names
  <1>6. CookiesRight(q.cookies, L)
    BY <1>1, <1>2 DEF CookiesRight, AllRight
  <1>7. ConnectionRight(q.connection_type, L)
    BY <1>1, <1>2, <1>3, <1>4 DEF ConnectionRight, AllRight
  <1>8. BrowserRight(q.is, q.ptr, L)
    <2>1. FirstOf(Named(ls, "User-Agent"), q.ptr["user_agent"])
      BY AgentFirst DEF AllRight
    <2>2. Named(L, "User-Agent") = Named(ls, "User-Agent")
      BY <1>1, <1>2
    <2>3. Named(ls, "User-Agent") # {} => L[q.ptr["user_agent"]] = ls[q.ptr["user_agent"]]
      BY <1>3, <1>4, <2>1 DEF FirstOf
    <2> QED
      BY <2>2, <2>3 DEF BrowserRight, AllRight
  <1> QED
    BY <1>5, <1>6, <1>7, <1>8 DEF AllRight, L

(***************************************************************************)
(* What a header line does: it is handled by the row of its name, and if   *)
(* there is none it changes nothing.                                       *)
(***************************************************************************)
LEMMA LineHandled ==
  ASSUME Filled, Chain, LastFree, HeaderLine
  PROVE  \E h \in Lines :
           /\ lines' = Append(lines, h)
           /\ \/ h.name \notin Names /\ headers_in' = headers_in
              \/ \E e \in Entries :
                   /\ h.name = http_headers[e].name
                   /\ headers_in' = Process(headers_in, http_headers[e], h, Len(lines) + 1)
  <1>1. PICK h \in Lines, i \in Probes :
          /\ EndsAt(table, h.name, i)
          /\ lines' = Append(lines, h)
          /\ headers_in' = IF SearchBucket(h.name, i) \in DOMAIN table
                           THEN Process(headers_in, EntryOf(table[SearchBucket(h.name, i)]), h,
                                        Len(lines) + 1)
                           ELSE headers_in
    BY DEF HeaderLine
  <1>2. h.name \in DOMAIN Hash /\ i \in Nat
    BY LinesAssumption, Rows DEF Probes, Entries
  <1>3. SearchBucket(h.name, i) \in DOMAIN table <=> h.name \in Names
    <2>1. Added = Names
      BY DEF HeaderLine, Added, Names, Entries
    <2> QED
      BY <1>1, <1>2, <2>1, SearchEnds
  <1>4. CASE h.name \notin Names
    BY <1>1, <1>3, <1>4
  <1>5. CASE h.name \in Names
    <2>1. table[SearchBucket(h.name, i)] = h.name
      BY <1>1, <1>3, <1>5 DEF EndsAt, Ends
    <2>2. PICK e \in Entries : h.name = http_headers[e].name
      BY <1>5 DEF Names
    <2>3. EntryOf(h.name) = http_headers[e]
      BY <2>2, RowOf
    <2> QED
      BY <1>1, <1>3, <1>5, <2>1, <2>2, <2>3
  <1> QED
    BY <1>4, <1>5
-----------------------------------------------------------------------------

(* AllRight is kept by a line, and nothing else changes headers_in. *)
LEMMA RightStep ==
  TypedInv /\ Chain /\ LastFree /\ AllRight(headers_in, lines) /\ [Next]_vars
    => AllRight(headers_in, lines)'
  <1> SUFFICES ASSUME TypedInv, Chain, LastFree, AllRight(headers_in, lines), [Next]_vars
               PROVE  AllRight(headers_in', lines')
    BY DEF AllRight, PointersRight, CookiesRight, ConnectionRight, BrowserRight, Named
  <1>1. CASE AddHeader \/ UNCHANGED vars
    <2>1. headers_in' = headers_in /\ lines' = lines
      BY <1>1 DEF AddHeader, vars
    <2> QED
      BY <2>1
  <1>2. CASE HeaderLine
    <2> DEFINE ls == lines
               q == headers_in
    <2>1. ls \in Seq(Lines) /\ q \in HeadersIn(Len(ls)) /\ Filled
      BY DEF TypedInv
    <2>2. PICK h \in Lines :
            /\ lines' = Append(ls, h)
            /\ \/ h.name \notin Names /\ headers_in' = q
               \/ \E e \in Entries :
                    /\ h.name = http_headers[e].name
                    /\ headers_in' = Process(q, http_headers[e], h, Len(ls) + 1)
      BY <1>2, <2>1, LineHandled
    <2>3. CASE h.name \notin Names
      <3>1. headers_in' = q
        BY <2>2, <2>3 DEF Names
      <3>2. AllRight(q, Append(ls, h))
        BY <2>1, <2>3, NothingStep
      <3> QED
        BY <2>2, <3>1, <3>2
    <2>4. ASSUME NEW e \in Entries, h.name = http_headers[e].name,
                 headers_in' = Process(q, http_headers[e], h, Len(ls) + 1)
          PROVE  AllRight(headers_in', Append(ls, h))
      <3> DEFINE k == Len(ls) + 1
                 r == headers_in'
      <3>1. /\ PointersRight(q.ptr, ls) /\ CookiesRight(q.cookies, ls)
            /\ ConnectionRight(q.connection_type, ls) /\ BrowserRight(q.is, q.ptr, ls)
        BY DEF AllRight
      <3> HIDE DEF q, ls
      <3>2. PointersRight(r.ptr, Append(ls, h))
        BY <2>1, <2>4, <3>1, PointersStep
      <3>3. CookiesRight(r.cookies, Append(ls, h))
        BY <2>1, <2>4, <3>1, CookiesStep
      <3>4. ConnectionRight(r.connection_type, Append(ls, h))
        BY <2>1, <2>4, <3>1, ConnectionStep
      <3>5. BrowserRight(r.is, r.ptr, Append(ls, h))
        BY <2>1, <2>4, <3>1, BrowserStep
      <3> QED
        BY <3>2, <3>3, <3>4, <3>5 DEF AllRight
    <2> QED
      BY <2>2, <2>3, <2>4
  <1> QED
    BY <1>1, <1>2 DEF Next

(***************************************************************************)
(* Whatever header lines come, in whatever order and however often,        *)
(* headers_in says of them what their handlers promise.                    *)
(***************************************************************************)
THEOREM FieldsAlwaysRight == Spec => []FieldsRight
  <1>1. Init => AllRight(headers_in, lines)
    <2> SUFFICES ASSUME Init PROVE AllRight(headers_in, lines)
      OBVIOUS
    <2>2. /\ lines = <<>>
          /\ \A o \in Offsets : headers_in.ptr[o] = 0
          /\ headers_in.cookies = <<>>
          /\ headers_in.connection_type = "none"
          /\ headers_in.is = {}
      BY DEF Init
    <2>3. \A n : Named(lines, n) = {}
      BY <2>2 DEF Named
    <2> DEFINE q == headers_in
    <2> HIDE DEF q
    <2>4. PointersRight(q.ptr, lines)
      <3>1. \A e \in Entries :
              http_headers[e].parser \in {"unique", "line", "user_agent"} =>
                q.ptr[http_headers[e].offset] = 0
        BY <2>2, OffsetFacts, OwnRows DEF q
      <3> QED
        BY <2>3, <3>1 DEF PointersRight, LastOf, FirstOf
    <2>5. CookiesRight(q.cookies, lines)
      BY <2>2, <2>3 DEF CookiesRight, q
    <2>6. ConnectionRight(q.connection_type, lines)
      BY <2>2, <2>3 DEF ConnectionRight, q
    <2>7. BrowserRight(q.is, q.ptr, lines)
      BY <2>2, <2>3 DEF BrowserRight, q
    <2> QED
      BY <2>4, <2>5, <2>6, <2>7 DEF AllRight, q
  <1>2. TableInv => Chain
    BY DEF TableInv
  <1> QED
    BY <1>1, <1>2, TypedInit, TypedStep, LastBucketFree, RightStep, RightIsRight, PTL DEF Spec
==============
