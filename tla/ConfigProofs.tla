---------------------------- MODULE ConfigProofs ----------------------------
(***************************************************************************)
(* Proofs about Config and its dictionary, for any files, names, hashes    *)
(* and sizes of the table.                                                 *)
(***************************************************************************)
EXTENDS Config, SequenceTheorems, WellFoundedInduction, TLAPS

-----------------------------------------------------------------------------
(* The least of a set of numbers *)

LEMMA LeastExists ==
  ASSUME NEW T \in SUBSET Nat, T # {}
  PROVE  \E m \in T : \A k \in T : m <= k
<1>1. PICK m \in T : \A k \in T : <<k, m>> \notin OpToRel(<, Nat)
  BY WFMin, NatLessThanWellFounded, Zenon
<1>2. \A k \in T : ~ (k < m)
  BY <1>1, Zenon DEF OpToRel
<1> QED
  BY <1>2

LEMMA MinFacts ==
  ASSUME NEW T \in SUBSET Nat, T # {}
  PROVE  Min(T) \in T /\ \A k \in T : Min(T) <= k
BY LeastExists DEF Min

-----------------------------------------------------------------------------
(* The inductive invariant *)

(* The records that the parser has added or tried to add. *)
Handled ==
  IF pc \in {"stopped", "parsed", "listening"} /\ nextln > 1
  THEN Records
  ELSE {i \in Records : i < line}

(* The parser is at a line, and no line before it ends the parsing. *)
LoopPlace ==
  /\ file \in Files
  /\ pc = "open" => line = 1 /\ nextln = 1
  /\ pc = "loop" => nextln = AfterToken(line) /\ \A j \in 1 .. line - 1 : ~ Ends(j)
  /\ pc # "listening" => readers = 0
  /\ pc = "listening" => port = Find(Listen)

Bucket(t, k) == table[t][Slot[t][k]]

(* A bucket has the entries of one name, the latest first. *)
Buckets ==
  \A t \in {0, 1}, i \in Index : \A n \in 1 .. Len(table[t][i]) :
    /\ table[t][i][n].val \in Handled
    /\ table[t][i][n].key = Name(table[t][i][n].val)
    /\ Slot[t][table[t][i][n].key] = i
    /\ \A m \in 1 .. n - 1 :
         /\ table[t][i][m].key = table[t][i][n].key
         /\ table[t][i][n].val < table[t][i][m].val

Stored(t, i) == \E n \in 1 .. Len(Bucket(t, Name(i))) : Bucket(t, Name(i))[n].val = i

(* What has refused record i. *)
RefusedBy(t, i) ==
  \E n \in 1 .. Len(Bucket(t, Name(i))) :
    Bucket(t, Name(i))[n].key # Name(i) /\ Bucket(t, Name(i))[n].val < i

(* No record is lost for any other reason than a rival in its bucket. *)
Kept ==
  \A i \in Handled : \E t \in Tables(rehashing) : Stored(t, i) \/ RefusedBy(t, i)

ConfigInv == TypeOK /\ LoopPlace /\ Buckets /\ Kept

-----------------------------------------------------------------------------
(* The file *)

LEMMA FileFacts ==
  ASSUME file \in Files
  PROVE  /\ file \in Seq(Line) /\ Len(file) \in Nat
         /\ \A i \in 1 .. Len(file) : file[i] \in Line
BY ConfigAssumption

LEMMA TextFacts ==
  ASSUME file \in Files, NEW n \in 1 .. EndOfFile
  PROVE  /\ TextFrom(n) \in n .. EndOfFile
         /\ \A m \in n .. TextFrom(n) - 1 : file[m].text = "empty"
         /\ TextFrom(n) # EndOfFile => file[TextFrom(n)].text # "empty"
         /\ AfterToken(n) \in n .. EndOfFile /\ AfterToken(n) \in 1 .. EndOfFile
<1> DEFINE T == {m \in n .. Len(file) : file[m].text # "empty"} \cup {EndOfFile}
<1>1. Len(file) \in Nat
  BY FileFacts
<1>2. T \in SUBSET Nat /\ T # {} /\ T \subseteq n .. EndOfFile
  BY <1>1 DEF EndOfFile
<1>3. TextFrom(n) \in T /\ \A k \in T : TextFrom(n) <= k
  <2>1. Min(T) \in T /\ \A k \in T : Min(T) <= k
    BY <1>2, MinFacts
  <2> QED
    BY <2>1 DEF TextFrom
<1>4. TextFrom(n) \in n .. EndOfFile
  BY <1>2, <1>3
<1>5. ASSUME NEW m \in n .. TextFrom(n) - 1 PROVE file[m].text = "empty"
  <2>1. m \in n .. Len(file) /\ m \notin T
    BY <1>1, <1>3, <1>4 DEF EndOfFile
  <2> QED
    BY <2>1
<1>6. TextFrom(n) # EndOfFile => file[TextFrom(n)].text # "empty"
  BY <1>3
<1>7. AfterToken(n) \in n .. EndOfFile /\ AfterToken(n) \in 1 .. EndOfFile
  BY <1>1, <1>4 DEF AfterToken, EndOfFile
<1> QED
  BY <1>4, <1>5, <1>6, <1>7

LEMMA RecordFacts ==
  ASSUME file \in Files, NEW i \in Records
  PROVE  /\ i \in 1 .. Len(file) /\ i \in Nat /\ Name(i) \in Key
         /\ \A t \in {0, 1} : Slot[t][Name(i)] \in Index
<1>1. i \in 1 .. Len(file) /\ Len(file[i].words) > 2
  BY DEF Records, IsRecord
<1>2. file[i].words # <<>>
  BY <1>1
<1>3. Name(i) \in Key
  BY <1>1, <1>2, ConfigAssumption DEF Name
<1> QED
  BY <1>1, <1>3, FileFacts, DictAssumption

(* At the line it parses, the parser has handled every record before it. *)
LEMMA CurrentFacts ==
  ASSUME TypeOK, LoopPlace, InLoop
  PROVE  /\ Current \in line .. EndOfFile
         /\ \A j \in line .. Current - 1 : ~ Ends(j) /\ ~ IsRecord(j)
         /\ \A j \in 1 .. Current - 1 : ~ Ends(j)
         /\ Current # EndOfFile =>
              nextln = Current + 1 /\ Current \in 1 .. Len(file)
         /\ Handled = {i \in Records : i < Current}
<1>1. line \in 1 .. EndOfFile /\ Len(file) \in Nat /\ pc = "loop"
  BY FileFacts DEF TypeOK, LoopPlace, InLoop
<1>2. /\ Current \in line .. EndOfFile
      /\ \A j \in line .. Current - 1 : file[j].text = "empty"
  BY <1>1, TextFacts DEF Current, LoopPlace
<1>3. \A j \in line .. Current - 1 : ~ Ends(j) /\ ~ IsRecord(j)
  BY <1>2 DEF Ends, IsRecord
<1>4. \A j \in 1 .. line - 1 : ~ Ends(j)
  BY <1>1 DEF LoopPlace
<1>5. \A j \in 1 .. Current - 1 : ~ Ends(j)
  BY <1>1, <1>2, <1>3, <1>4
<1>6. Current # EndOfFile => nextln = Current + 1 /\ Current \in 1 .. Len(file)
  BY <1>1, <1>2 DEF LoopPlace, AfterToken, Current, EndOfFile
<1>7. \A i \in Records : i < line <=> i < Current
  <2> SUFFICES ASSUME NEW i \in Records PROVE i < line <=> i < Current
    OBVIOUS
  <2>1. i \in Nat /\ IsRecord(i)
    BY RecordFacts DEF LoopPlace, Records
  <2> QED
    BY <1>1, <1>2, <1>3, <2>1
<1>8. Handled = {i \in Records : i < Current}
  BY <1>1, <1>7 DEF Handled
<1> QED
  BY <1>2, <1>3, <1>5, <1>6, <1>8

-----------------------------------------------------------------------------
(* The dictionary *)

LEMMA LinkFacts ==
  ASSUME NEW e \in Entry, NEW s \in Seq(Entry)
  PROVE  /\ Link(e, s) \in Seq(Entry) /\ Len(s) \in Nat
         /\ Len(Link(e, s)) = Len(s) + 1 /\ Link(e, s)[1] = e
         /\ \A n \in 1 .. Len(s) : Link(e, s)[n + 1] = s[n]
         /\ \A n \in 1 .. Len(s) + 1 :
              n # 1 => n - 1 \in 1 .. Len(s) /\ Link(e, s)[n] = s[n - 1]
BY DEF Link

LEMMA EntryFacts ==
  ASSUME NEW s \in Seq(Entry), NEW n \in 1 .. Len(s)
  PROVE  s[n] \in Entry /\ s[n].key \in Key /\ s[n].val \in Nat
<1>1. s[n] \in Entry
  OBVIOUS
<1> QED
  BY <1>1 DEF Entry

(* dict_add either changes nothing or links the entry to one bucket. *)
LEMMA AddFacts ==
  ASSUME TypeOK, NEW k \in Key, NEW v \in Nat, Add(k, v)
  PROVE  /\ made' \in BOOLEAN /\ rehashing' \in BOOLEAN /\ readers' = readers
         /\ rehashing => rehashing'
         /\ used' \in [{0, 1} -> Nat]
         /\ \/ table' = table /\ Refused(k, Tables(rehashing'))
            \/ /\ ~ Refused(k, Tables(rehashing'))
               /\ table' \in [{0, 1} -> [Index -> Seq(Entry)]]
               /\ \E to \in Tables(rehashing') :
                    \A t \in {0, 1}, i \in Index :
                      table'[t][i] = IF t = to /\ i = Slot[to][k]
                                     THEN Link([key |-> k, val |-> v], table[t][i])
                                     ELSE table[t][i]
<1> DEFINE e == [key |-> k, val |-> v]
           to == IF NewRehashing THEN 1 ELSE 0
<1>1. e \in Entry
  BY DEF Entry
<1>2. to \in {0, 1} /\ to \in Tables(NewRehashing) /\ Slot[to][k] \in Index
  BY DictAssumption DEF Tables
<1>3. /\ made' \in BOOLEAN /\ rehashing' \in BOOLEAN /\ readers' = readers
      /\ Tables(rehashing') = Tables(NewRehashing) /\ (rehashing => rehashing')
  BY DEF Add, TypeOK, NewRehashing, Full, Tables
<1>4. CASE Refused(k, Tables(NewRehashing))
  BY <1>3, <1>4 DEF Add, TypeOK
<1>5. CASE ~ Refused(k, Tables(NewRehashing))
  <2>1. /\ table' = [table EXCEPT ![to][Slot[to][k]] = Link(e, @)]
        /\ used' = [used EXCEPT ![to] = @ + 1]
    BY <1>5 DEF Add
  <2>2. used' \in [{0, 1} -> Nat]
    BY <1>2, <2>1 DEF TypeOK
  <2> HIDE DEF to, e
  <2>3. Link(e, table[to][Slot[to][k]]) \in Seq(Entry)
    <3>1. table[to][Slot[to][k]] \in Seq(Entry)
      BY <1>2 DEF TypeOK
    <3> QED
      BY <1>1, <3>1, LinkFacts
  <2>4. table' \in [{0, 1} -> [Index -> Seq(Entry)]]
    BY <1>2, <2>1, <2>3 DEF TypeOK
  <2>5. \A t \in {0, 1}, i \in Index :
          table'[t][i] = IF t = to /\ i = Slot[to][k]
                         THEN Link(e, table[t][i]) ELSE table[t][i]
    BY <1>2, <2>1 DEF TypeOK
  <2>6. ~ Refused(k, Tables(rehashing')) /\ to \in Tables(rehashing')
    BY <1>2, <1>3, <1>5
  <2>7. \E tt \in Tables(rehashing') :
          \A t \in {0, 1}, i \in Index :
            table'[t][i] = IF t = tt /\ i = Slot[tt][k]
                           THEN Link(e, table[t][i]) ELSE table[t][i]
    BY <2>5, <2>6
  <2> QED
    BY <1>3, <2>2, <2>4, <2>6, <2>7 DEF e
<1> QED
  BY <1>4, <1>5

(* The first entry of a bucket is the only one that dict_find can return. *)
LEMMA HeadFacts ==
  ASSUME TypeOK, Buckets, NEW t \in {0, 1}, NEW k \in Key, Positions(t, k) # {}
  PROVE  /\ 1 \in 1 .. Len(Bucket(t, k))
         /\ Bucket(t, k)[1].key = k /\ FirstIn(t, k) = Bucket(t, k)[1].val
         /\ \A n \in 1 .. Len(Bucket(t, k)) :
              /\ Bucket(t, k)[n].key = k
              /\ Bucket(t, k)[n].val <= Bucket(t, k)[1].val
<1>1. Slot[t][k] \in Index /\ Bucket(t, k) \in Seq(Entry)
  BY DictAssumption DEF TypeOK, Bucket
<1>2. PICK n \in 1 .. Len(Bucket(t, k)) : Bucket(t, k)[n].key = k
  BY DEF Positions, Bucket
<1>3. 1 \in 1 .. Len(Bucket(t, k)) /\ Len(Bucket(t, k)) \in Nat
  BY <1>1, <1>2
<1>4. Bucket(t, k)[1].key = k
  <2>1. CASE n = 1
    BY <1>2, <2>1
  <2>2. CASE n # 1
    <3>1. 1 \in 1 .. n - 1
      BY <1>2, <1>3, <2>2
    <3> QED
      BY <1>1, <1>2, <3>1 DEF Buckets, Bucket
  <2> QED
    BY <2>1, <2>2
<1>5. Min(Positions(t, k)) = 1
  <2>1. Positions(t, k) \subseteq 1 .. Len(Bucket(t, k)) /\ 1 \in Positions(t, k)
    BY <1>3, <1>4 DEF Positions, Bucket
  <2>2. Min(Positions(t, k)) \in Positions(t, k) /\ Min(Positions(t, k)) <= 1
    BY <1>3, <2>1, MinFacts
  <2> QED
    BY <1>3, <2>1, <2>2
<1>6. ASSUME NEW m \in 1 .. Len(Bucket(t, k))
      PROVE  /\ Bucket(t, k)[m].key = k
             /\ Bucket(t, k)[m].val <= Bucket(t, k)[1].val
  <2>1. Bucket(t, k)[m].val \in Nat
    BY <1>1, EntryFacts
  <2>2. CASE m = 1
    BY <1>4, <2>1, <2>2
  <2>3. CASE m # 1
    <3>1. 1 \in 1 .. m - 1
      BY <1>3, <2>3
    <3>2. /\ Bucket(t, k)[m].val < Bucket(t, k)[1].val
          /\ Bucket(t, k)[m].key = k
      BY <1>1, <1>4, <3>1 DEF Buckets, Bucket
    <3>3. Bucket(t, k)[1].val \in Nat
      BY <1>1, <1>3, EntryFacts
    <3> QED
      BY <2>1, <3>2, <3>3
  <2> QED
    BY <2>2, <2>3
<1> QED
  BY <1>3, <1>4, <1>5, <1>6 DEF FirstIn, Bucket

(* What was stored, or was refused, stays so when an entry is linked. *)
LEMMA AddKeeps ==
  ASSUME ConfigInv, NEW v \in Records, Add(Name(v), v),
         file' = file, Handled = {i \in Records : i < v}, Handled' = Handled \cup {v}
  PROVE  Buckets' /\ Kept'
<1> DEFINE k == Name(v)
           e == [key |-> k, val |-> v]
<1>1. k \in Key /\ v \in Nat /\ e \in Entry /\ \A t \in {0, 1} : Slot[t][k] \in Index
  BY RecordFacts DEF ConfigInv, LoopPlace, Entry
<1>2. \A i : Name(i)' = Name(i)
  BY DEF Name
<1>3. \A i \in Handled : i \in Records /\ i \in Nat /\ i < v
  BY RecordFacts DEF ConfigInv, LoopPlace
<1>4. \A t \in {0, 1}, i \in Index : table[t][i] \in Seq(Entry)
  BY DEF ConfigInv, TypeOK
<1>5. Tables(rehashing) \subseteq Tables(rehashing') /\ Tables(rehashing') \subseteq {0, 1}
  BY <1>1, AddFacts DEF ConfigInv, Tables
<1>8. \A s \in Seq(Entry) :
        /\ Len(s) \in Nat /\ Len(Link(e, s)) = Len(s) + 1 /\ Link(e, s)[1] = e
        /\ \A n \in 1 .. Len(s) : Link(e, s)[n + 1] = s[n]
        /\ \A n \in 1 .. Len(s) + 1 :
             n # 1 => n - 1 \in 1 .. Len(s) /\ Link(e, s)[n] = s[n - 1]
  BY <1>1, LinkFacts, Zenon
<1> HIDE DEF k, e
<1>6. CASE table' = table /\ Refused(k, Tables(rehashing'))
  <2>1. Buckets'
    BY <1>2, <1>6 DEF ConfigInv, Buckets
  <2>2. ASSUME NEW i \in Handled
        PROVE  \E t \in Tables(rehashing') : Stored(t, i)' \/ RefusedBy(t, i)'
    <3>1. PICK t \in Tables(rehashing) : Stored(t, i) \/ RefusedBy(t, i)
      BY DEF ConfigInv, Kept
    <3> QED
      BY <1>2, <1>5, <1>6, <3>1 DEF Stored, RefusedBy, Bucket
  <2>3. \E t \in Tables(rehashing') : RefusedBy(t, v)'
    <3>1. PICK t \in Tables(rehashing') : Keys(Bucket(t, k)) \ {k} # {}
      BY <1>6 DEF Refused, Bucket
    <3>2. PICK n \in 1 .. Len(Bucket(t, k)) : Bucket(t, k)[n].key # k
      BY <3>1 DEF Keys
    <3>3. Bucket(t, k)[n].val < v
      BY <1>1, <1>3, <1>5, <3>2 DEF ConfigInv, Buckets, Bucket
    <3> QED
      BY <1>2, <1>6, <3>1, <3>2, <3>3 DEF RefusedBy, Bucket, k
  <2> QED
    BY <2>1, <2>2, <2>3 DEF Kept
<1>7. CASE /\ ~ Refused(k, Tables(rehashing'))
           /\ \E to \in Tables(rehashing') :
                \A t \in {0, 1}, i \in Index :
                  table'[t][i] = IF t = to /\ i = Slot[to][k]
                                 THEN Link(e, table[t][i]) ELSE table[t][i]
  <2>1. PICK to \in Tables(rehashing') :
          \A t \in {0, 1}, i \in Index :
            table'[t][i] = IF t = to /\ i = Slot[to][k]
                           THEN Link(e, table[t][i]) ELSE table[t][i]
    BY <1>7
  <2>2. to \in {0, 1}
    BY <1>5
  <2>3. ASSUME NEW n \in 1 .. Len(table[to][Slot[to][k]])
        PROVE  table[to][Slot[to][k]][n].key = k
    <3>1. Keys(table[to][Slot[to][k]]) \ {k} = {}
      BY <1>7 DEF Refused
    <3>2. table[to][Slot[to][k]][n].key \in Keys(table[to][Slot[to][k]])
      BY DEF Keys
    <3> QED
      BY <3>1, <3>2
  <2>4. Buckets'
    <3> SUFFICES ASSUME NEW t \in {0, 1}, NEW i \in Index,
                        NEW n \in 1 .. Len(table'[t][i])
                 PROVE  /\ table'[t][i][n].val \in Handled'
                        /\ table'[t][i][n].key = Name(table'[t][i][n].val)
                        /\ Slot[t][table'[t][i][n].key] = i
                        /\ \A m \in 1 .. n - 1 :
                             /\ table'[t][i][m].key = table'[t][i][n].key
                             /\ table'[t][i][n].val < table'[t][i][m].val
      BY <1>2 DEF Buckets
    <3>1. CASE ~ (t = to /\ i = Slot[to][k])
      <4>1. table'[t][i] = table[t][i]
        BY <2>1, <3>1
      <4> QED
        BY <4>1 DEF ConfigInv, Buckets
    <3>2. CASE t = to /\ i = Slot[to][k]
      <4> DEFINE s == table[t][i]
      <4>1. s \in Seq(Entry)
        BY <1>4
      <4>2. table'[t][i] = Link(e, s) /\ e.key = k /\ e.val = v
        BY <2>1, <3>2 DEF e
      <4>3. \A m \in 1 .. Len(s) :
              /\ s[m].val \in Handled /\ s[m].key = k /\ s[m].key = Name(s[m].val)
              /\ \A l \in 1 .. m - 1 : s[m].val < s[l].val
        <5>1. \A m \in 1 .. Len(s) :
                /\ s[m].val \in Handled /\ s[m].key = Name(s[m].val)
                /\ \A l \in 1 .. m - 1 : s[m].val < s[l].val
          BY DEF ConfigInv, Buckets
        <5>2. \A m \in 1 .. Len(s) : s[m].key = k
          BY <2>3, <3>2
        <5> QED
          BY <5>1, <5>2
      <4> HIDE DEF s
      <4>4. CASE n = 1
        <5>1. table'[t][i][n] = e
          BY <1>8, <4>1, <4>2, <4>4
        <5>2. e.val = v /\ e.key = k /\ k = Name(v) /\ Slot[t][k] = i
          BY <3>2, <4>2 DEF k
        <5> QED
          BY <1>1, <4>4, <5>1, <5>2
      <4>5. CASE n # 1
        <5>1. n \in 1 .. Len(s) + 1 /\ n - 1 \in 1 .. Len(s) /\ Link(e, s)[n] = s[n - 1]
          BY <1>8, <4>1, <4>2, <4>5
        <5>2. ASSUME NEW m \in 1 .. n - 1
              PROVE  /\ Link(e, s)[m].key = k
                     /\ s[n - 1].val < Link(e, s)[m].val
          <6>1. CASE m = 1
            BY <1>3, <1>8, <4>1, <4>2, <4>3, <5>1, <6>1
          <6>2. CASE m # 1
            <7>1. /\ m - 1 \in 1 .. n - 2 /\ m - 1 \in 1 .. Len(s)
                  /\ Link(e, s)[m] = s[m - 1]
              BY <1>8, <4>1, <5>1, <6>2
            <7> QED
              BY <4>3, <5>1, <7>1
          <6> QED
            BY <6>1, <6>2
        <5> QED
          BY <3>2, <4>2, <4>3, <5>1, <5>2
      <4> QED
        BY <4>4, <4>5
    <3> QED
      BY <3>1, <3>2
  <2>5. ASSUME NEW t \in {0, 1}, NEW i \in Index, NEW n \in 1 .. Len(table[t][i])
        PROVE  \E m \in 1 .. Len(table'[t][i]) : table'[t][i][m] = table[t][i][n]
    <3>1. CASE ~ (t = to /\ i = Slot[to][k])
      BY <2>1, <3>1
    <3>2. CASE t = to /\ i = Slot[to][k]
      <4>1. table'[t][i] = Link(e, table[t][i]) /\ table[t][i] \in Seq(Entry)
        BY <1>4, <2>1, <3>2
      <4>2. n + 1 \in 1 .. Len(table'[t][i]) /\ table'[t][i][n + 1] = table[t][i][n]
        BY <1>8, <4>1
      <4> QED
        BY <4>2
    <3> QED
      BY <3>1, <3>2
  <2>6. ASSUME NEW i \in Handled
        PROVE  \E t \in Tables(rehashing') : Stored(t, i)' \/ RefusedBy(t, i)'
    <3>1. PICK t \in Tables(rehashing) : Stored(t, i) \/ RefusedBy(t, i)
      BY DEF ConfigInv, Kept
    <3>2. t \in {0, 1} /\ t \in Tables(rehashing') /\ Slot[t][Name(i)] \in Index
      BY <1>3, <1>5, RecordFacts DEF ConfigInv, LoopPlace
    <3>3. ASSUME NEW n \in 1 .. Len(Bucket(t, Name(i)))
          PROVE  \E m \in 1 .. Len(table'[t][Slot[t][Name(i)]]) :
                   table'[t][Slot[t][Name(i)]][m] = Bucket(t, Name(i))[n]
      BY <2>5, <3>2 DEF Bucket
    <3>4. CASE Stored(t, i)
      BY <1>2, <3>2, <3>3, <3>4 DEF Stored, Bucket
    <3>5. CASE RefusedBy(t, i)
      <4>1. PICK n \in 1 .. Len(Bucket(t, Name(i))) :
              Bucket(t, Name(i))[n].key # Name(i) /\ Bucket(t, Name(i))[n].val < i
        BY <3>5 DEF RefusedBy
      <4>2. PICK m \in 1 .. Len(table'[t][Slot[t][Name(i)]]) :
              table'[t][Slot[t][Name(i)]][m] = Bucket(t, Name(i))[n]
        BY <3>3
      <4>3. Name(i)' = Name(i) /\ Bucket(t, Name(i))' = table'[t][Slot[t][Name(i)]]
        BY <1>2 DEF Bucket, Name
      <4> QED
        BY <3>2, <4>1, <4>2, <4>3 DEF RefusedBy
    <3> QED
      BY <3>1, <3>2, <3>4, <3>5
  <2>7. Stored(to, v)'
    <3>1. /\ table'[to][Slot[to][k]] = Link(e, table[to][Slot[to][k]])
          /\ table[to][Slot[to][k]] \in Seq(Entry) /\ e.val = v
      BY <1>1, <1>4, <2>1, <2>2 DEF e
    <3>2. /\ 1 \in 1 .. Len(table'[to][Slot[to][k]])
          /\ table'[to][Slot[to][k]][1] = e
      BY <1>8, <3>1
    <3> QED
      BY <1>2, <3>1, <3>2 DEF Stored, Bucket, k
  <2> QED
    BY <2>1, <2>4, <2>6, <2>7 DEF Kept
<1>9. /\ TypeOK /\ k \in Key /\ v \in Nat /\ Add(k, v) /\ e = [key |-> k, val |-> v]
  BY <1>1 DEF ConfigInv, k, e
<1>10. \/ table' = table /\ Refused(k, Tables(rehashing'))
       \/ /\ ~ Refused(k, Tables(rehashing'))
          /\ \E to \in Tables(rehashing') :
               \A t \in {0, 1}, i \in Index :
                 table'[t][i] = IF t = to /\ i = Slot[to][k]
                                THEN Link(e, table[t][i]) ELSE table[t][i]
  BY <1>9, AddFacts
<1> QED
  BY <1>6, <1>7, <1>10

LEMMA FindFacts ==
  ASSUME TypeOK, file \in Files, Buckets, NEW k \in Key
  PROVE  /\ Find(k) # 0 => Find(k) \in Handled /\ Name(Find(k)) = k
         /\ Find(k) = 0 => \A t \in Tables(rehashing) : Positions(t, k) = {}
         /\ Find(k) # 0 /\ ~ rehashing =>
              Positions(0, k) # {} /\ Find(k) = FirstIn(0, k)
<1>1. \A i \in Handled : i \in Nat /\ i # 0
  BY RecordFacts, FileFacts DEF Handled
<1>2. ASSUME NEW t \in {0, 1}, Positions(t, k) # {}
      PROVE  FirstIn(t, k) \in Handled /\ Name(FirstIn(t, k)) = k /\ FirstIn(t, k) # 0
  <2>1. /\ 1 \in 1 .. Len(Bucket(t, k)) /\ Slot[t][k] \in Index
        /\ Bucket(t, k)[1].key = k /\ FirstIn(t, k) = Bucket(t, k)[1].val
    BY <1>2, HeadFacts, DictAssumption
  <2>2. /\ Bucket(t, k)[1].val \in Handled
        /\ Bucket(t, k)[1].key = Name(Bucket(t, k)[1].val)
    BY <2>1 DEF Buckets, Bucket
  <2> QED
    BY <1>1, <2>1, <2>2
<1> QED
  BY <1>2 DEF Find, Tables

-----------------------------------------------------------------------------
(* The steps *)

LEMMA FileKept ==
  ASSUME file' = file
  PROVE  /\ Records' = Records /\ EndOfFile' = EndOfFile
         /\ \A n : AfterToken(n)' = AfterToken(n) /\ Ends(n)' = Ends(n)
         /\ AfterToken(line)' = AfterToken(line')
BY DEF Records, EndOfFile, AfterToken, TextFrom, Ends, IsRecord

LEMMA DictKept ==
  ASSUME Buckets, Kept, table' = table, rehashing' = rehashing, file' = file,
         Handled' = Handled
  PROVE  Buckets' /\ Kept'
<1>0. \A i : Name(i)' = Name(i)
  BY DEF Name
<1>1. Buckets'
  BY <1>0 DEF Buckets
<1>2. Kept'
  BY <1>0 DEF Kept, Stored, RefusedBy, Bucket
<1> QED
  BY <1>1, <1>2

LEMMA TextAgain ==
  ASSUME file \in Files, NEW n \in 1 .. EndOfFile, TextFrom(n) # EndOfFile
  PROVE  TextFrom(TextFrom(n)) = TextFrom(n)
<1>1. TextFrom(n) \in 1 .. EndOfFile /\ file[TextFrom(n)].text # "empty"
  BY TextFacts, FileFacts DEF EndOfFile
<1>2. /\ TextFrom(TextFrom(n)) \in TextFrom(n) .. EndOfFile
      /\ \A m \in TextFrom(n) .. TextFrom(TextFrom(n)) - 1 : file[m].text = "empty"
  BY <1>1, TextFacts
<1>3. TextFrom(n) \notin TextFrom(n) .. TextFrom(TextFrom(n)) - 1
  BY <1>1, <1>2
<1> QED
  BY <1>1, <1>2, <1>3, FileFacts DEF EndOfFile

LEMMA InitInv == Init => ConfigInv
<1> SUFFICES ASSUME Init PROVE ConfigInv
  OBVIOUS
<1>1. Len(file) \in Nat /\ file \in Files
  BY FileFacts DEF Init
<1>2. TypeOK
  <2>1. <<>> \in Seq(Entry)
    BY EmptySeq
  <2>2. /\ table \in [{0, 1} -> [Index -> Seq(Entry)]]
        /\ used \in [{0, 1} -> Nat] /\ made \in BOOLEAN /\ rehashing \in BOOLEAN
    BY <2>1 DEF Init, DictInit
  <2> QED
    BY <1>1, <2>2 DEF Init, DictInit, TypeOK, EndOfFile
<1>3. LoopPlace
  BY <1>1 DEF Init, DictInit, LoopPlace
<1>4. Handled = {}
  <2>1. \A i \in Records : ~ (i < 1)
    BY <1>1, RecordFacts
  <2> QED
    BY <2>1 DEF Init, Handled
<1>5. Buckets /\ Kept
  BY <1>4 DEF Init, DictInit, Buckets, Kept
<1> QED
  BY <1>2, <1>3, <1>5 DEF ConfigInv

(* What the parser knows of the line it parses. *)
LEMMA ParsingFacts ==
  ASSUME TypeOK, LoopPlace, Parsing, ~ Missing
  PROVE  /\ Current \in 1 .. Len(file) /\ nextln = Current + 1 /\ nextln > 1
         /\ \A j \in 1 .. Current - 1 : ~ Ends(j)
         /\ Handled = {i \in Records : i < Current}
         /\ IsRecord(Current) <=> Words[2] \in Types
         /\ Words[2] \notin Types => Ends(Current)
         /\ Ends(Current) => \A i \in Records : i <= Current
<1>1. Current # EndOfFile
  BY EmptySeq DEF Missing, Words
<1>2. /\ Current \in 1 .. Len(file) /\ nextln = Current + 1
      /\ \A j \in 1 .. Current - 1 : ~ Ends(j)
      /\ Handled = {i \in Records : i < Current}
  BY <1>1, CurrentFacts DEF Parsing
<1>3. file[Current].text = "words" /\ Words = file[Current].words
  BY <1>1 DEF Parsing, Words
<1>4. Len(Words) \in Nat
  <2>1. file[Current].words \in Seq(Word)
    BY <1>2, FileFacts DEF LoopPlace, Line
  <2> QED
    BY <1>3, <2>1
<1>5. IsRecord(Current) <=> Words[2] \in Types
  <2>1. Words[2] \in Types => Len(Words) > 2
    BY <1>4 DEF Missing
  <2>2. IsRecord(Current) <=> Len(Words) > 2 /\ Words[2] \in Types
    BY <1>3 DEF IsRecord
  <2> QED
    BY <2>1, <2>2
<1>6. Words[2] \notin Types => Ends(Current)
  BY <1>3, <1>5 DEF Ends
<1>7. ASSUME Ends(Current), NEW i \in Records PROVE i <= Current
  <2>1. i \in Nat /\ \A j \in 1 .. i - 1 : ~ Ends(j)
    BY RecordFacts DEF LoopPlace, Records
  <2> QED
    BY <1>2, <1>7, <2>1
<1> QED
  BY <1>2, <1>5, <1>6, <1>7

LEMMA Step == ConfigInv /\ [Next]_vars => ConfigInv'
<1> SUFFICES ASSUME ConfigInv, [Next]_vars PROVE ConfigInv'
  OBVIOUS
<1> USE DEF ConfigInv
<1>1. Len(file) \in Nat /\ file \in Files
  BY FileFacts DEF LoopPlace
<1>2. CASE NoFile
  <2> USE <1>2 DEF NoFile, parseVars, dictVars
  <2>1. TypeOK'
    BY DEF TypeOK, EndOfFile
  <2>2. LoopPlace'
    BY DEF LoopPlace
  <2>3. Handled' = Handled
    BY FileKept DEF Handled, LoopPlace
  <2> QED
    BY <2>1, <2>2, <2>3, DictKept
<1>3. CASE Open
  <2> USE <1>3 DEF Open, dictVars
  <2>1. /\ 1 \in 1 .. EndOfFile
        /\ line' \in 1 .. EndOfFile /\ nextln' \in 1 .. EndOfFile
        /\ \A m \in 1 .. line' - 1 : file[m].text = "empty"
    BY <1>1, TextFacts DEF EndOfFile
  <2>2. TypeOK'
    BY <2>1 DEF TypeOK, EndOfFile
  <2>3. pc' = "loop" => nextln' = AfterToken(line')
    BY <1>1, <2>1, TextAgain DEF AfterToken
  <2>4. \A j \in 1 .. line' - 1 : ~ Ends(j) /\ ~ IsRecord(j)
    BY <2>1 DEF Ends, IsRecord
  <2>5. LoopPlace'
    BY <2>1, <2>3, <2>4, FileKept DEF LoopPlace
  <2>6. Handled' = Handled
    <3>1. \A i \in Records : ~ (i < 1) /\ ~ (i < line')
      BY <1>1, <2>1, <2>4, RecordFacts DEF Records
    <3> QED
      BY <3>1, FileKept DEF Handled, LoopPlace
  <2> QED
    BY <2>2, <2>5, <2>6, DictKept
<1>4. CASE Comment
  <2> USE <1>4 DEF Comment, IterToNextLine, dictVars
  <2>1. /\ Current \in 1 .. Len(file) /\ line' = Current + 1
        /\ Handled = {i \in Records : i < Current}
        /\ \A j \in 1 .. Current - 1 : ~ Ends(j)
    BY CurrentFacts
  <2>2. line' \in 1 .. EndOfFile /\ nextln' \in 1 .. EndOfFile
    BY <1>1, <2>1, TextFacts DEF EndOfFile
  <2>3. TypeOK'
    BY <2>2 DEF TypeOK, EndOfFile
  <2>4. ~ Ends(Current) /\ Current \notin Records
    BY DEF Ends, Records, IsRecord
  <2>5. LoopPlace'
    <3>1. pc = "loop" /\ pc' = "loop"
      BY DEF InLoop
    <3>2. \A j \in 1 .. line' - 1 : ~ Ends(j)
      BY <2>1, <2>4
    <3> QED
      BY <3>1, <3>2, FileKept DEF LoopPlace
  <2>6. Handled' = Handled
    <3>1. \A i \in Records : i < line' <=> i < Current
      BY <1>1, <2>1, <2>4, RecordFacts
    <3>2. Handled' = {i \in Records : i < line'}
      BY FileKept DEF Handled, InLoop
    <3> QED
      BY <2>1, <3>1, <3>2
  <2> QED
    BY <2>3, <2>5, <2>6, DictKept
<1>5. CASE Crash
  <2> USE <1>5 DEF Crash, parseVars, dictVars
  <2>1. TypeOK'
    BY DEF TypeOK, EndOfFile
  <2>2. LoopPlace'
    BY DEF LoopPlace, Parsing, InLoop
  <2>3. Handled' = Handled
    BY FileKept DEF Handled, Parsing, InLoop
  <2> QED
    BY <2>1, <2>2, <2>3, DictKept
<1>6. CASE BadType
  <2> USE <1>6 DEF BadType, parseVars, dictVars
  <2>1. TypeOK'
    BY DEF TypeOK, EndOfFile
  <2>2. LoopPlace'
    BY DEF LoopPlace, Parsing, InLoop
  <2>3. Handled' = Handled
    <3>1. /\ Current \in 1 .. Len(file) /\ nextln > 1 /\ ~ IsRecord(Current)
          /\ Handled = {i \in Records : i < Current}
          /\ \A i \in Records : i <= Current
      BY ParsingFacts
    <3>2. \A i \in Records : i < Current
      BY <1>1, <3>1, RecordFacts DEF Records
    <3>3. Handled' = Records
      BY <3>1, FileKept DEF Handled
    <3> QED
      BY <3>1, <3>2, <3>3
  <2> QED
    BY <2>1, <2>2, <2>3, DictKept
<1>7. CASE Record
  <2> USE <1>7 DEF Record
  <2>1. /\ Current \in 1 .. Len(file) /\ nextln = Current + 1 /\ nextln > 1
        /\ \A j \in 1 .. Current - 1 : ~ Ends(j)
        /\ Handled = {i \in Records : i < Current}
        /\ IsRecord(Current)
        /\ Ends(Current) => \A i \in Records : i <= Current
    BY ParsingFacts
  <2>2. Current \in Records /\ Words[1] = Name(Current)
    BY <1>1, <2>1 DEF Records, Words, Name, EndOfFile
  <2>3. Name(Current) \in Key /\ Current \in Nat
    BY <1>1, <2>2, RecordFacts
  <2>4. Add(Name(Current), Current) /\ file' = file /\ port' = port
    BY <2>2
  <2>5. /\ made' \in BOOLEAN /\ rehashing' \in BOOLEAN /\ readers' = readers
        /\ used' \in [{0, 1} -> Nat] /\ table' \in [{0, 1} -> [Index -> Seq(Entry)]]
    BY <2>3, <2>4, AddFacts DEF TypeOK
  <2>6. /\ pc' = "loop" /\ line' = Current + 1 /\ nextln' = AfterToken(line')
           /\ ~ file[Current].more
        \/ /\ pc' = "stopped" /\ line' = line /\ nextln' = nextln
           /\ file[Current].more
    BY <2>1 DEF IterToNextLine, Parsing, InLoop
  <2>7. line' \in 1 .. EndOfFile /\ nextln' \in 1 .. EndOfFile
    <3>1. Current + 1 \in 1 .. EndOfFile
      BY <1>1, <2>1 DEF EndOfFile
    <3> QED
      BY <1>1, <2>6, <3>1, TextFacts DEF TypeOK
  <2>8. TypeOK'
    BY <2>4, <2>5, <2>6, <2>7 DEF TypeOK, EndOfFile
  <2>9. LoopPlace'
    <3>1. pc' = "loop" => \A j \in 1 .. line' - 1 : ~ Ends(j)
      <4>1. ~ file[Current].more => ~ Ends(Current)
        BY <2>1 DEF Ends
      <4> QED
        BY <2>1, <2>6, <4>1
    <3>2. pc = "loop"
      BY DEF Parsing, InLoop
    <3> QED
      BY <1>1, <2>4, <2>5, <2>6, <3>1, <3>2, FileKept DEF LoopPlace
  <2>10. Handled' = Handled \cup {Current}
    <3>1. CASE ~ file[Current].more
      <4>1. Handled' = {i \in Records : i < Current + 1}
        BY <2>4, <2>6, <3>1, FileKept DEF Handled
      <4>2. \A i \in Records : i < Current + 1 <=> i < Current \/ i = Current
        BY <1>1, <2>3, RecordFacts
      <4> QED
        BY <2>1, <2>2, <4>1, <4>2
    <3>2. CASE file[Current].more
      <4>1. Handled' = Records
        BY <2>1, <2>4, <2>6, <3>2, FileKept DEF Handled
      <4>2. Ends(Current)
        BY <2>1, <3>2 DEF Ends, IsRecord
      <4>3. \A i \in Records : i < Current \/ i = Current
        BY <1>1, <2>1, <2>3, <4>2, RecordFacts
      <4> QED
        BY <2>1, <2>2, <4>1, <4>3
    <3> QED
      BY <3>1, <3>2
  <2> QED
    BY <2>1, <2>2, <2>4, <2>8, <2>9, <2>10, AddKeeps
<1>8. CASE Done
  <2> USE <1>8 DEF Done, parseVars, dictVars
  <2>1. TypeOK'
    BY DEF TypeOK, EndOfFile
  <2>2. LoopPlace'
    BY DEF LoopPlace
  <2>3. Handled' = Handled
    <3>1. \A i \in Records : i < line
      BY <1>1, RecordFacts DEF EndOfFile
    <3> QED
      BY <3>1, FileKept DEF Handled
  <2> QED
    BY <2>1, <2>2, <2>3, DictKept
<1>9. CASE GetPort
  <2> USE <1>9 DEF GetPort, parseVars
  <2>1. Handled' = Handled
    BY FileKept DEF Handled
  <2>2. Find(Listen)' = Find(Listen)
    BY DEF Find, Positions, FirstIn
  <2>3. LoopPlace'
    BY <1>1, <2>2 DEF LoopPlace
  <2>4. port' \in 0 .. Len(file)
    <3>1. Find(Listen) # 0 => Find(Listen) \in Handled
      BY <1>1, FindFacts, ConfigAssumption
    <3>2. \A i \in Handled : i \in 1 .. Len(file)
      BY <1>1, RecordFacts DEF Handled
    <3> QED
      BY <1>1, <3>1, <3>2
  <2>5. readers' \in 0 .. 1
    BY DEF FindLock, LoopPlace, TypeOK
  <2>6. TypeOK'
    BY <2>4, <2>5 DEF TypeOK, EndOfFile
  <2> QED
    BY <2>1, <2>3, <2>6, DictKept
<1>10. CASE UNCHANGED vars
  <2> USE <1>10 DEF vars, dictVars
  <2>1. TypeOK'
    BY DEF TypeOK, EndOfFile
  <2>2. LoopPlace'
    <3>1. Find(Listen)' = Find(Listen)
      BY DEF Find, Positions, FirstIn
    <3> QED
      BY <3>1, FileKept DEF LoopPlace
  <2>3. Handled' = Handled
    BY FileKept DEF Handled
  <2> QED
    BY <2>1, <2>2, <2>3, DictKept
<1> QED
  BY <1>2, <1>3, <1>4, <1>5, <1>6, <1>7, <1>8, <1>9, <1>10 DEF Next

LEMMA Invariant == Spec => []ConfigInv
BY InitInv, Step, PTL DEF Spec

-----------------------------------------------------------------------------
(* The results *)

(***************************************************************************)
(* Types hold for any file: neither pointer of config_parse_file passes    *)
(* the end of it, and the port comes from one of its lines.                *)
(***************************************************************************)
THEOREM TypeCorrect == Spec => []TypeOK
BY Invariant, PTL DEF ConfigInv

(***************************************************************************)
(* However names collide, the port is the last record of its name as long  *)
(* as there is one table, and always a record of its name.                 *)
(***************************************************************************)
THEOREM LastRecordWins == Spec => []PortIsLast
<1>1. ConfigInv => PortIsLast
  <2> SUFFICES ASSUME ConfigInv, Listening, port # 0
               PROVE  /\ port \in RecordsOf(Listen)
                      /\ ~ rehashing => \A i \in RecordsOf(Listen) : i <= port
    BY DEF PortIsLast
  <2>1. /\ port = Find(Listen) /\ file \in Files /\ Handled = Records
        /\ Listen \in Key /\ Slot[0][Listen] \in Index
    BY ConfigAssumption, DictAssumption DEF ConfigInv, LoopPlace, Listening, Handled
  <2>2. port \in RecordsOf(Listen)
    BY <2>1, FindFacts DEF ConfigInv, RecordsOf
  <2>3. ASSUME ~ rehashing, NEW i \in RecordsOf(Listen) PROVE i <= port
    <3>1. Positions(0, Listen) # {} /\ port = FirstIn(0, Listen)
      BY <2>1, <2>3, FindFacts DEF ConfigInv
    <3>2. /\ port = Bucket(0, Listen)[1].val
          /\ \A n \in 1 .. Len(Bucket(0, Listen)) :
               /\ Bucket(0, Listen)[n].key = Listen
               /\ Bucket(0, Listen)[n].val <= Bucket(0, Listen)[1].val
      BY <2>1, <3>1, HeadFacts DEF ConfigInv
    <3>3. i \in Handled /\ Name(i) = Listen
      BY <2>1 DEF RecordsOf
    <3>4. Stored(0, i) \/ RefusedBy(0, i)
      BY <2>3, <3>3 DEF ConfigInv, Kept, Tables
    <3> QED
      BY <3>2, <3>3, <3>4 DEF Stored, RefusedBy
  <2> QED
    BY <2>2, <2>3
<1> QED
  BY <1>1, Invariant, PTL

(***************************************************************************)
(* A record of the port is lost only to another name in its bucket that    *)
(* came before, for any hash; and that name keeps the bucket.              *)
(***************************************************************************)
THEOREM LostOnlyToRivals == Spec => []PortFound
<1>1. ConfigInv => PortFound
  <2> SUFFICES ASSUME ConfigInv, Listening PROVE PortFound
    BY DEF PortFound
  <2>1. /\ port = Find(Listen) /\ file \in Files /\ Handled = Records
        /\ Listen \in Key /\ \A t \in {0, 1} : Slot[t][Listen] \in Index
    BY ConfigAssumption, DictAssumption DEF ConfigInv, LoopPlace, Listening, Handled
  <2>2. ASSUME port = 0, NEW i \in RecordsOf(Listen)
        PROVE  RivalBefore(i, 0) \/ RivalBefore(i, 1)
    <3>1. i \in Handled /\ Name(i) = Listen
      BY <2>1 DEF RecordsOf
    <3>2. PICK t \in Tables(rehashing) : Stored(t, i) \/ RefusedBy(t, i)
      BY <3>1 DEF ConfigInv, Kept
    <3>3. t \in {0, 1} /\ Positions(t, Listen) = {}
      BY <2>1, <2>2, <3>2, FindFacts DEF ConfigInv, Tables
    <3>4. ASSUME NEW n \in 1 .. Len(Bucket(t, Listen))
          PROVE  /\ Bucket(t, Listen)[n].val \in Records
                 /\ Bucket(t, Listen)[n].key = Name(Bucket(t, Listen)[n].val)
                 /\ Slot[t][Bucket(t, Listen)[n].key] = Slot[t][Listen]
                 /\ Bucket(t, Listen)[n].key # Listen
      <4>1. Slot[t][Listen] \in Index /\ n \in 1 .. Len(table[t][Slot[t][Listen]])
        BY <2>1, <3>3 DEF Bucket
      <4>2. /\ Bucket(t, Listen)[n].val \in Handled
            /\ Bucket(t, Listen)[n].key = Name(Bucket(t, Listen)[n].val)
            /\ Slot[t][Bucket(t, Listen)[n].key] = Slot[t][Listen]
        BY <3>3, <4>1 DEF ConfigInv, Buckets, Bucket
      <4>3. Bucket(t, Listen)[n].key # Listen
        BY <3>3, <4>1 DEF Bucket, Positions
      <4> QED
        BY <2>1, <4>2, <4>3
    <3>5. ~ Stored(t, i)
      BY <3>1, <3>4 DEF Stored
    <3>6. RefusedBy(t, i)
      BY <3>2, <3>5
    <3>7. RivalBefore(i, t)
      BY <3>1, <3>4, <3>6 DEF RefusedBy, RivalBefore, Rivals
    <3> QED
      BY <3>3, <3>7
  <2>3. ASSUME port # 0, ~ rehashing
        PROVE  \E i \in RecordsOf(Listen) : ~ RivalBefore(i, 0)
    <3> DEFINE s == Bucket(0, Listen)
               i == s[Len(s)].val
    <3>1. Positions(0, Listen) # {}
      BY <2>1, <2>3, FindFacts DEF ConfigInv
    <3>2. 1 \in 1 .. Len(s) /\ \A n \in 1 .. Len(s) : s[n].key = Listen
      BY <2>1, <3>1, HeadFacts DEF ConfigInv
    <3>3. Len(s) \in 1 .. Len(s) /\ \A n \in 1 .. Len(s) : n = Len(s) \/ n \in 1 .. Len(s) - 1
      <4>1. s \in Seq(Entry) /\ Len(s) \in Nat
        BY <2>1 DEF ConfigInv, TypeOK, Bucket
      <4> QED
        BY <3>2, <4>1
    <3>4. ASSUME NEW n \in 1 .. Len(s)
          PROVE  /\ s[n].val \in Records /\ Name(s[n].val) = Listen
                 /\ \A m \in 1 .. n - 1 : s[n].val < s[m].val
      BY <2>1, <3>2 DEF ConfigInv, Buckets, Bucket
    <3>5. i \in RecordsOf(Listen) /\ i \in Nat
      BY <2>1, <3>3, <3>4, RecordFacts DEF RecordsOf
    <3>6. ASSUME NEW j \in Rivals(0, Listen), j < i PROVE FALSE
      <4>1. /\ j \in Handled /\ j \in Nat /\ Name(j) # Listen
            /\ Bucket(0, Name(j)) = s
        BY <2>1, RecordFacts DEF Rivals, Bucket
      <4>2. Stored(0, j) \/ RefusedBy(0, j)
        BY <2>3, <4>1 DEF ConfigInv, Kept, Tables
      <4>3. CASE Stored(0, j)
        BY <3>4, <4>1, <4>3 DEF Stored
      <4>4. CASE RefusedBy(0, j)
        <5>1. PICK n \in 1 .. Len(s) : s[n].val < j
          BY <4>1, <4>4 DEF RefusedBy
        <5>2. i <= s[n].val /\ s[n].val \in Nat
          <6>1. s[n].val \in Nat
            BY <2>1, <3>4, RecordFacts
          <6> QED
            BY <3>3, <3>4, <3>5, <6>1
        <5> QED
          BY <3>5, <3>6, <4>1, <5>1, <5>2
      <4> QED
        BY <4>2, <4>3, <4>4
    <3> QED
      BY <3>5, <3>6 DEF RivalBefore
  <2> QED
    BY <2>2, <2>3 DEF PortFound
<1> QED
  BY <1>1, Invariant, PTL
=============================================================================
