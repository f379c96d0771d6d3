--------------------------- MODULE AtomicListProofs --------------------------
(***************************************************************************)
(* Proofs about AtomicList, for any number of threads and items and any    *)
(* width of the version.                                                   *)
(***************************************************************************)
EXTENDS AtomicList, TLAPS

USE PoppersAssumption, NullAssumption, VersionAssumption

(* What the local variables of a thread hold at each of its steps. *)
ThreadPointers(p) ==
  /\ pc[p] \in {"push_load", "push_link", "push_cas"} => arg[p] \in held[p]
  /\ pc[p] = "push_cas" => next[arg[p]] = seen[p].ptr
  /\ pc[p] \in {"pop_next", "pop_cas", "all_cas"} => seen[p].ptr # Null
  /\ pc[p] \in {"pop_load", "pop_next", "pop_cas", "pop_clear"} => p \in Poppers
  /\ pc[p] = "pop_clear" => arg[p] # Null

Pointers == \A p \in Proc : ThreadPointers(p)

(* The version tells how many removals a thread inside pop has missed. *)
Versions ==
  \A p \in InPop :
    \/ head.ver = seen[p].ver + age[p]
    \/ head.ver = seen[p].ver + age[p] - VersionMod

(* As long as nothing is removed, the item pop has loaded is on the list,  *)
(* and the link read from it is still its link.                            *)
Untouched ==
  \A p \in InPop :
    age[p] = 0 =>
      /\ seen[p].ptr \in InSeq(lst)
      /\ pc[p] = "pop_cas" => link[p] = next[seen[p].ptr]

IInv ==
  /\ TypeOK
  /\ ListShape
  /\ ChainShape
  /\ Conservation
  /\ Pointers
  /\ Versions
  /\ Untouched

-----------------------------------------------------------------------------
(* Sequences of items *)

LEMMA PrependFacts ==
  ASSUME NEW s \in Seq(Item), NEW x \in Item
  PROVE  LET t == <<x>> \o s IN
         /\ t \in Seq(Item)
         /\ Len(t) = Len(s) + 1
         /\ t # <<>>
         /\ t[1] = x
         /\ \A i \in 1 .. Len(s) : t[i + 1] = s[i]
         /\ InSeq(t) = {x} \cup InSeq(s)
<1> DEFINE t == <<x>> \o s
<1>1. /\ t \in Seq(Item)
      /\ Len(t) = Len(s) + 1
      /\ t # <<>>
      /\ t[1] = x
      /\ \A i \in 1 .. Len(s) : t[i + 1] = s[i]
  OBVIOUS
<1>2. DOMAIN t = 1 .. Len(s) + 1 /\ DOMAIN s = 1 .. Len(s)
  BY <1>1
<1>3. InSeq(t) \subseteq {x} \cup InSeq(s)
  <2> SUFFICES ASSUME NEW i \in 1 .. Len(s) + 1 PROVE t[i] \in {x} \cup InSeq(s)
    BY <1>2 DEF InSeq
  <2>1. CASE i = 1
    BY <2>1, <1>1
  <2>2. CASE i # 1
    <3>1. i - 1 \in 1 .. Len(s) /\ t[(i - 1) + 1] = s[i - 1] /\ (i - 1) + 1 = i
      BY <2>2, <1>1
    <3> QED
      BY <3>1, <1>2 DEF InSeq
  <2> QED
    BY <2>1, <2>2
<1>4. {x} \cup InSeq(s) \subseteq InSeq(t)
  <2>1. x \in InSeq(t)
    BY <1>1, <1>2 DEF InSeq
  <2>2. ASSUME NEW i \in 1 .. Len(s) PROVE s[i] \in InSeq(t)
    <3>1. i + 1 \in DOMAIN t /\ t[i + 1] = s[i]
      BY <1>1, <1>2
    <3> QED
      BY <3>1 DEF InSeq
  <2> QED
    BY <2>1, <2>2, <1>2 DEF InSeq
<1> QED
  BY <1>1, <1>3, <1>4

LEMMA TailFacts ==
  ASSUME NEW s \in Seq(Item), s # <<>>
  PROVE  LET t == Tail(s) IN
         /\ t \in Seq(Item)
         /\ Len(t) = Len(s) - 1
         /\ \A i \in 1 .. Len(t) : t[i] = s[i + 1]
         /\ InSeq(s) = {s[1]} \cup InSeq(t)
         /\ Distinct(s) => Distinct(t) /\ s[1] \notin InSeq(t)
<1> DEFINE t == Tail(s)
<1>1. /\ t \in Seq(Item)
      /\ Len(s) \in Nat \ {0}
      /\ Len(t) = Len(s) - 1
      /\ \A i \in 1 .. Len(t) : t[i] = s[i + 1]
  OBVIOUS
<1>2. DOMAIN t = 1 .. Len(t) /\ DOMAIN s = 1 .. Len(s)
  BY <1>1
<1>3. InSeq(s) \subseteq {s[1]} \cup InSeq(t)
  <2> SUFFICES ASSUME NEW i \in 1 .. Len(s), i # 1 PROVE s[i] \in InSeq(t)
    BY <1>2 DEF InSeq
  <2>1. i - 1 \in 1 .. Len(t) /\ t[i - 1] = s[i]
    BY <1>1
  <2> QED
    BY <2>1, <1>2 DEF InSeq
<1>4. {s[1]} \cup InSeq(t) \subseteq InSeq(s)
  <2>1. s[1] \in InSeq(s)
    BY <1>1, <1>2 DEF InSeq
  <2>2. ASSUME NEW i \in 1 .. Len(t) PROVE t[i] \in InSeq(s)
    <3>1. i + 1 \in DOMAIN s /\ s[i + 1] = t[i]
      BY <1>1, <1>2
    <3> QED
      BY <3>1 DEF InSeq
  <2> QED
    BY <2>1, <2>2, <1>2 DEF InSeq
<1>5. ASSUME Distinct(s) PROVE Distinct(t) /\ s[1] \notin InSeq(t)
  <2>1. ASSUME NEW i \in 1 .. Len(t), NEW j \in 1 .. Len(t), t[i] = t[j]
        PROVE  i = j
    <3>1. i + 1 \in DOMAIN s /\ j + 1 \in DOMAIN s /\ s[i + 1] = s[j + 1]
      BY <1>1, <1>2, <2>1
    <3> QED
      BY <3>1, <1>5 DEF Distinct
  <2>2. ASSUME NEW i \in 1 .. Len(t), t[i] = s[1] PROVE FALSE
    <3>1. i + 1 \in DOMAIN s /\ 1 \in DOMAIN s /\ s[i + 1] = s[1]
      BY <1>1, <1>2, <2>2
    <3>2. i + 1 = 1
      BY <3>1, <1>5 DEF Distinct
    <3> QED
      BY <3>2
  <2> QED
    BY <2>1, <2>2, <1>2 DEF Distinct, InSeq
<1> QED
  BY <1>1, <1>3, <1>4, <1>5

-----------------------------------------------------------------------------
(* The head is Null exactly when the list is empty. *)
LEMMA EmptyHead ==
  ASSUME TypeOK, ListShape
  PROVE  /\ head.ptr = Null <=> lst = <<>>
         /\ lst # <<>> => head.ptr = lst[1] /\ next[lst[1]] = After(lst, 1)
<1>1. lst # <<>> => lst[1] \in Item /\ 1 \in DOMAIN lst
  BY DEF TypeOK
<1> QED
  BY <1>1 DEF ListShape, Represents, First

(***************************************************************************)
(* When pop finds the head it has loaded, nothing was removed since: the   *)
(* version would have shown it.                                            *)
(***************************************************************************)
LEMMA SameHead ==
  ASSUME TypeOK, ListShape, Versions, Untouched,
         NEW p \in Proc, pc[p] = "pop_cas", head = seen[p]
  PROVE  age[p] = 0 /\ (head.ptr # Null => link[p] = After(lst, 1))
<1>1. p \in InPop
  BY DEF InPop
<1>2. head.ver \in 0 .. VersionMod - 1 /\ age[p] \in 0 .. VersionMod - 1
  BY DEF TypeOK, HeadP, Version
<1>3. age[p] = 0
  BY <1>1, <1>2 DEF Versions
<1>4. link[p] = next[head.ptr]
  BY <1>1, <1>3 DEF Untouched
<1> QED
  BY <1>3, <1>4, EmptyHead

(* A walk that has reached an item has a chain that begins with it. *)
LEMMA WalkFirst ==
  ASSUME TypeOK, ChainShape, NEW p \in Proc, pc[p] = "walk"
  PROVE  /\ arg[p] = Null <=> chain[p] = <<>>
         /\ chain[p] # <<>> => /\ arg[p] = chain[p][1]
                               /\ next[arg[p]] = After(chain[p], 1)
<1>1. chain[p] \in Seq(Item)
  BY DEF TypeOK
<1>2. chain[p] # <<>> => chain[p][1] \in Item /\ 1 \in DOMAIN chain[p]
  BY <1>1
<1> QED
  BY <1>2 DEF ChainShape, Represents, First

LEMMA TypeStep ==
  ASSUME TypeOK, ListShape, ChainShape, Pointers, [Next]_vars
  PROVE  TypeOK'
<1> USE DEF TypeOK, HeadP, Ptr, Version, NoHead
<1>1. 0 \in 0 .. VersionMod - 1
  OBVIOUS
<1>2. ASSUME NEW p \in Proc,
             \/ PushCall(p) \/ PushLoad(p) \/ PushRetry(p)
             \/ PopCall(p) \/ PopLoad(p) \/ PopEmpty(p) \/ PopRetry(p)
             \/ PopAllCall(p) \/ PopAllLoad(p) \/ PopAllEmpty(p)
             \/ PopAllRetry(p) \/ WalkDone(p)
      PROVE  TypeOK'
  <2>1. CASE PushCall(p)
    BY <2>1, <1>1 DEF PushCall
  <2>2. CASE PopCall(p)
    BY <2>2, <1>1 DEF PopCall
  <2>3. CASE PopAllCall(p)
    BY <2>3, <1>1 DEF PopAllCall
  <2>4. CASE PushLoad(p)
    BY <2>4, <1>1 DEF PushLoad
  <2>5. CASE PushRetry(p)
    BY <2>5, <1>1 DEF PushRetry
  <2>6. CASE PopLoad(p)
    BY <2>6, <1>1 DEF PopLoad
  <2>7. CASE PopEmpty(p)
    BY <2>7, <1>1 DEF PopEmpty
  <2>8. CASE PopRetry(p)
    BY <2>8, <1>1 DEF PopRetry
  <2>9. CASE PopAllLoad(p)
    BY <2>9, <1>1 DEF PopAllLoad
  <2>10. CASE PopAllEmpty(p)
    BY <2>10, <1>1 DEF PopAllEmpty
  <2>11. CASE PopAllRetry(p)
    BY <2>11, <1>1 DEF PopAllRetry
  <2>12. CASE WalkDone(p)
    BY <2>12, <1>1 DEF WalkDone
  <2> QED
    BY <1>2, <2>1, <2>2, <2>3, <2>4, <2>5, <2>6, <2>7, <2>8, <2>9, <2>10, <2>11, <2>12
<1>3. ASSUME NEW p \in Proc, PushLink(p) PROVE TypeOK'
  BY <1>3 DEF PushLink
<1>4. ASSUME NEW p \in Proc, PushCas(p) PROVE TypeOK'
  <2>1. arg[p] \in Item
    BY <1>4 DEF PushCas, Pointers, ThreadPointers
  <2> QED
    BY <1>4, <2>1, PrependFacts DEF PushCas
<1>5. ASSUME NEW p \in Proc, PopReadNext(p) PROVE TypeOK'
  <2>1. seen[p].ptr \in Item
    BY <1>5 DEF PopReadNext, Pointers, ThreadPointers
  <2> QED
    BY <1>5, <2>1 DEF PopReadNext
<1>6. ASSUME NextVersion(head.ver) \notin Version PROVE FALSE
  BY <1>6 DEF NextVersion
<1>7. ASSUME WithinVersionWindow PROVE Older \in [Proc -> 0 .. VersionMod - 1]
  BY <1>7 DEF WithinVersionWindow, Older, InPop
<1>8. ASSUME NEW p \in Proc, PopCas(p) PROVE TypeOK'
  <2>1. lst # <<>>
    BY <1>8, EmptyHead DEF PopCas, Pointers, ThreadPointers
  <2>2. lst' \in Seq(Item)
    BY <1>8, <2>1, TailFacts DEF PopCas
  <2>3. age' \in [Proc -> 0 .. VersionMod - 1]
    BY <1>8, <1>7 DEF PopCas
  <2>4. head' \in HeadP
    BY <1>8, <1>6 DEF PopCas
  <2> QED
    BY <1>8, <2>2, <2>3, <2>4 DEF PopCas
<1>9. ASSUME NEW p \in Proc, PopClear(p) PROVE TypeOK'
  BY <1>9 DEF PopClear, Pointers, ThreadPointers
<1>10. ASSUME NEW p \in Proc, PopAllCas(p) PROVE TypeOK'
  <2>1. age' \in [Proc -> 0 .. VersionMod - 1]
    BY <1>10, <1>7 DEF PopAllCas
  <2>2. head' \in HeadP
    BY <1>10, <1>6 DEF PopAllCas
  <2>3. lst' \in Seq(Item) /\ chain' \in [Proc -> Seq(Item)]
    BY <1>10 DEF PopAllCas
  <2> QED
    BY <1>10, <2>1, <2>2, <2>3 DEF PopAllCas
<1>11. ASSUME NEW p \in Proc, WalkStep(p) PROVE TypeOK'
  <2>1. chain[p] # <<>> /\ arg[p] \in Item
    BY <1>11, WalkFirst DEF WalkStep
  <2>2. Tail(chain[p]) \in Seq(Item)
    BY <2>1, TailFacts
  <2> QED
    BY <1>11, <2>1, <2>2 DEF WalkStep
<1>12. CASE UNCHANGED vars
  BY <1>12 DEF vars
<1> QED
  BY <1>2, <1>3, <1>4, <1>5, <1>8, <1>9, <1>10, <1>11, <1>12
  DEF Next, Call, Step

-----------------------------------------------------------------------------
(***************************************************************************)
(* A thread writes the link of an item only while the item is its own.     *)
(***************************************************************************)
Writes(p) == PushLink(p) \/ PopClear(p) \/ WalkStep(p)

LEMMA WriteOwn ==
  ASSUME TypeOK, ChainShape, Conservation, Pointers, NEW p \in Proc, Writes(p)
  PROVE  /\ arg[p] \in Item
         /\ arg[p] \in Owned(p)
         /\ arg[p] \notin InSeq(lst)
         /\ \A q \in Proc \ {p} : arg[p] \notin Owned(q)
         /\ \A x \in Item \ {arg[p]} : next'[x] = next[x]
<1>1. CASE PushLink(p)
  <2>1. arg[p] \in held[p]
    BY <1>1 DEF PushLink, Pointers, ThreadPointers
  <2>2. \A x \in Item \ {arg[p]} : next'[x] = next[x]
    BY <1>1 DEF PushLink, TypeOK
  <2> QED
    BY <2>1, <2>2 DEF Conservation, Owned, TypeOK
<1>2. CASE PopClear(p)
  <2>1. arg[p] \in Clearing(p) /\ arg[p] \in Item
    BY <1>2 DEF PopClear, Clearing, Pointers, ThreadPointers, TypeOK, Ptr
  <2>2. \A x \in Item \ {arg[p]} : next'[x] = next[x]
    BY <1>2 DEF PopClear, TypeOK
  <2> QED
    BY <2>1, <2>2 DEF Conservation, Owned
<1>3. CASE WalkStep(p)
  <2>1. chain[p] \in Seq(Item) /\ chain[p] # <<>> /\ arg[p] = chain[p][1]
    BY <1>3, WalkFirst DEF WalkStep, TypeOK
  <2>2. arg[p] \in InSeq(chain[p]) /\ arg[p] \in Item
    BY <2>1 DEF InSeq
  <2>3. \A x \in Item \ {arg[p]} : next'[x] = next[x]
    BY <1>3 DEF WalkStep, TypeOK
  <2> QED
    BY <2>2, <2>3 DEF Conservation, Owned
<1> QED
  BY <1>1, <1>2, <1>3 DEF Writes

LEMMA PointersStep ==
  ASSUME TypeOK, ChainShape, Conservation, Pointers, [Next]_vars
  PROVE  Pointers'
<1> SUFFICES ASSUME NEW q \in Proc PROVE ThreadPointers(q)'
  BY DEF Pointers
<1>1. ThreadPointers(q)
  BY DEF Pointers
<1> USE DEF ThreadPointers
<1>2. ASSUME NEW p \in Proc, Writes(p) PROVE ThreadPointers(q)'
  <2>1. CASE p = q
    <3>1. CASE PushLink(p)
      BY <1>1, <2>1, <3>1 DEF PushLink, TypeOK
    <3>2. CASE PopClear(p)
      BY <1>1, <2>1, <3>2 DEF PopClear, TypeOK
    <3>3. CASE WalkStep(p)
      BY <1>1, <2>1, <3>3 DEF WalkStep, TypeOK
    <3> QED
      BY <1>2, <3>1, <3>2, <3>3 DEF Writes
  <2>2. CASE p # q
    <3>1. /\ pc'[q] = pc[q] /\ arg'[q] = arg[q] /\ seen'[q] = seen[q]
          /\ held'[q] = held[q]
      BY <1>2, <2>2 DEF Writes, PushLink, PopClear, WalkStep, TypeOK
    <3>2. pc[q] = "push_cas" => next'[arg[q]] = next[arg[q]]
      BY <1>1, <1>2, <2>2, WriteOwn DEF Owned, TypeOK
    <3> QED
      BY <1>1, <3>1, <3>2
  <2> QED
    BY <2>1, <2>2
<1>3. ASSUME NEW p \in Proc, (Call(p) \/ Step(p)) /\ ~ Writes(p)
      PROVE  ThreadPointers(q)'
  <2>1. CASE PushCall(p)
    BY <1>1, <2>1 DEF PushCall, TypeOK, NoHead
  <2>2. CASE PopCall(p)
    BY <1>1, <2>2 DEF PopCall, TypeOK, NoHead
  <2>3. CASE PopAllCall(p)
    BY <1>1, <2>3 DEF PopAllCall, TypeOK, NoHead
  <2>4. CASE PushLoad(p)
    BY <1>1, <2>4 DEF PushLoad, TypeOK, NoHead
  <2>5. CASE PushCas(p)
    BY <1>1, <2>5 DEF PushCas, TypeOK, NoHead
  <2>6. CASE PushRetry(p)
    BY <1>1, <2>6 DEF PushRetry, TypeOK, NoHead
  <2>7. CASE PopLoad(p)
    BY <1>1, <2>7 DEF PopLoad, TypeOK, NoHead
  <2>8. CASE PopEmpty(p)
    BY <1>1, <2>8 DEF PopEmpty, TypeOK, NoHead
  <2>9. CASE PopReadNext(p)
    BY <1>1, <2>9 DEF PopReadNext, TypeOK, NoHead
  <2>10. CASE PopCas(p)
    BY <1>1, <2>10 DEF PopCas, TypeOK, NoHead
  <2>11. CASE PopRetry(p)
    BY <1>1, <2>11 DEF PopRetry, TypeOK, NoHead
  <2>12. CASE PopAllLoad(p)
    BY <1>1, <2>12 DEF PopAllLoad, TypeOK, NoHead
  <2>13. CASE PopAllEmpty(p)
    BY <1>1, <2>13 DEF PopAllEmpty, TypeOK, NoHead
  <2>14. CASE PopAllCas(p)
    BY <1>1, <2>14 DEF PopAllCas, TypeOK, NoHead
  <2>15. CASE PopAllRetry(p)
    BY <1>1, <2>15 DEF PopAllRetry, TypeOK, NoHead
  <2>16. CASE WalkDone(p)
    BY <1>1, <2>16 DEF WalkDone, TypeOK, NoHead
  <2> QED
    BY <1>3, <2>1, <2>2, <2>3, <2>4, <2>5, <2>6, <2>7, <2>8,
       <2>9, <2>10, <2>11, <2>12, <2>13, <2>14, <2>15, <2>16 DEF Call, Step, Writes
<1>4. CASE UNCHANGED vars
  BY <1>1, <1>4 DEF vars
<1> QED
  BY <1>2, <1>3, <1>4 DEF Next

-----------------------------------------------------------------------------
(* Only a removal changes the version, and it ages every thread in pop. *)
Removes(p) == PopCas(p) \/ PopAllCas(p)

LEMMA Removal ==
  ASSUME TypeOK, NEW p \in Proc, Removes(p)
  PROVE  /\ WithinVersionWindow
         /\ head'.ver = NextVersion(head.ver)
         /\ \A q \in Proc : q \in InPop' => /\ q \in InPop /\ q # p
                                          /\ age'[q] = age[q] + 1
                                          /\ seen'[q] = seen[q]
<1>1. CASE PopCas(p)
  BY <1>1 DEF PopCas, TypeOK, InPop, Older
<1>2. CASE PopAllCas(p)
  BY <1>2 DEF PopAllCas, TypeOK, InPop, Older
<1> QED
  BY <1>1, <1>2 DEF Removes

LEMMA VersionsStep ==
  ASSUME TypeOK, Versions, [Next]_vars
  PROVE  Versions'
<1> SUFFICES ASSUME NEW q \in Proc, q \in InPop'
             PROVE  \/ head'.ver = seen'[q].ver + age'[q]
                    \/ head'.ver = seen'[q].ver + age'[q] - VersionMod
  BY DEF Versions, InPop
<1>0. head.ver \in 0 .. VersionMod - 1 /\ seen[q].ver \in 0 .. VersionMod - 1
      /\ age[q] \in 0 .. VersionMod - 1
  BY DEF TypeOK, HeadP, Version
<1> DEFINE Goal == \/ head'.ver = seen'[q].ver + age'[q]
                   \/ head'.ver = seen'[q].ver + age'[q] - VersionMod
<1>1. ASSUME NEW p \in Proc, Removes(p) PROVE Goal
  <2>1. /\ q \in InPop /\ age'[q] = age[q] + 1 /\ seen'[q] = seen[q]
        /\ head'.ver = NextVersion(head.ver) /\ age[q] < VersionMod - 1
    BY <1>1, Removal DEF WithinVersionWindow
  <2>2. \/ head.ver = seen[q].ver + age[q]
        \/ head.ver = seen[q].ver + age[q] - VersionMod
    BY <2>1 DEF Versions
  <2> QED
    BY <1>0, <2>1, <2>2 DEF NextVersion
<1>2. ASSUME NEW p \in Proc, PopLoad(p), p = q PROVE Goal
  BY <1>0, <1>2 DEF PopLoad, TypeOK
<1>3. ASSUME NEW p \in Proc, (Call(p) \/ Step(p)) /\ ~ Removes(p),
             ~ (PopLoad(p) /\ p = q)
      PROVE  /\ q \in InPop /\ head'.ver = head.ver
             /\ seen'[q] = seen[q] /\ age'[q] = age[q]
  <2>1. CASE PushCall(p)
    BY <1>3, <2>1 DEF PushCall, TypeOK, InPop
  <2>2. CASE PopCall(p)
    BY <1>3, <2>2 DEF PopCall, TypeOK, InPop
  <2>3. CASE PopAllCall(p)
    BY <1>3, <2>3 DEF PopAllCall, TypeOK, InPop
  <2>4. CASE PushLoad(p)
    BY <1>3, <2>4 DEF PushLoad, TypeOK, InPop
  <2>5. CASE PushLink(p)
    BY <1>3, <2>5 DEF PushLink, TypeOK, InPop
  <2>6. CASE PushCas(p)
    BY <1>3, <2>6 DEF PushCas, TypeOK, InPop
  <2>7. CASE PushRetry(p)
    BY <1>3, <2>7 DEF PushRetry, TypeOK, InPop
  <2>8. CASE PopLoad(p)
    BY <1>3, <2>8 DEF PopLoad, TypeOK, InPop
  <2>9. CASE PopEmpty(p)
    BY <1>3, <2>9 DEF PopEmpty, TypeOK, InPop
  <2>10. CASE PopReadNext(p)
    BY <1>3, <2>10 DEF PopReadNext, TypeOK, InPop
  <2>11. CASE PopRetry(p)
    BY <1>3, <2>11 DEF PopRetry, TypeOK, InPop
  <2>12. CASE PopClear(p)
    BY <1>3, <2>12 DEF PopClear, TypeOK, InPop
  <2>13. CASE PopAllLoad(p)
    BY <1>3, <2>13 DEF PopAllLoad, TypeOK, InPop
  <2>14. CASE PopAllEmpty(p)
    BY <1>3, <2>14 DEF PopAllEmpty, TypeOK, InPop
  <2>15. CASE PopAllRetry(p)
    BY <1>3, <2>15 DEF PopAllRetry, TypeOK, InPop
  <2>16. CASE WalkStep(p)
    BY <1>3, <2>16 DEF WalkStep, TypeOK, InPop
  <2>17. CASE WalkDone(p)
    BY <1>3, <2>17 DEF WalkDone, TypeOK, InPop
  <2> QED
    BY <1>3, <2>1, <2>2, <2>3, <2>4, <2>5, <2>6, <2>7, <2>8,
       <2>9, <2>10, <2>11, <2>12, <2>13, <2>14, <2>15, <2>16, <2>17 DEF Call, Step, Removes
<1>4. CASE UNCHANGED vars
  BY <1>4 DEF vars, Versions, InPop
<1>5. CASE \E p \in Proc : /\ (Call(p) \/ Step(p)) /\ ~ Removes(p)
                           /\ ~ (PopLoad(p) /\ p = q)
  BY <1>3, <1>5 DEF Versions
<1> QED
  BY <1>1, <1>2, <1>4, <1>5 DEF Next

-----------------------------------------------------------------------------
(***************************************************************************)
(* Quiet steps touch neither the list, nor a link, nor who owns what: the  *)
(* calls, the loads, and the compare-and-swaps that fail.                  *)
(***************************************************************************)
Quiet(p) ==
  \/ PushCall(p) \/ PushLoad(p) \/ PushRetry(p)
  \/ PopCall(p) \/ PopLoad(p) \/ PopEmpty(p) \/ PopReadNext(p) \/ PopRetry(p)
  \/ PopAllCall(p) \/ PopAllLoad(p) \/ PopAllEmpty(p) \/ PopAllRetry(p)
  \/ WalkDone(p)

LEMMA StepKinds ==
  ASSUME NEW p \in Proc, Call(p) \/ Step(p)
  PROVE  Quiet(p) \/ Writes(p) \/ Removes(p) \/ PushCas(p)
BY DEF Call, Step, Quiet, Writes, Removes

LEMMA QuietFrame ==
  ASSUME TypeOK, ChainShape, NEW p \in Proc, Quiet(p)
  PROVE  /\ UNCHANGED <<head, next, held, lst, chain>>
         /\ \A q \in Proc : Clearing(q)' = Clearing(q) /\ Owned(q)' = Owned(q)
         /\ ChainShape'
<1>1. /\ UNCHANGED <<head, next, held, lst, chain>>
      /\ pc[p] # "pop_clear" /\ pc'[p] # "pop_clear"
      /\ chain[p] = <<>>
      /\ pc'[p] # "walk"
      /\ \A q \in Proc \ {p} : pc'[q] = pc[q] /\ arg'[q] = arg[q]
  <2>1. CASE PushCall(p)
    BY WalkFirst, <2>1 DEF PushCall, TypeOK, ChainShape
  <2>2. CASE PopCall(p)
    BY WalkFirst, <2>2 DEF PopCall, TypeOK, ChainShape
  <2>3. CASE PopAllCall(p)
    BY WalkFirst, <2>3 DEF PopAllCall, TypeOK, ChainShape
  <2>4. CASE PushLoad(p)
    BY WalkFirst, <2>4 DEF PushLoad, TypeOK, ChainShape
  <2>5. CASE PushRetry(p)
    BY WalkFirst, <2>5 DEF PushRetry, TypeOK, ChainShape
  <2>6. CASE PopLoad(p)
    BY WalkFirst, <2>6 DEF PopLoad, TypeOK, ChainShape
  <2>7. CASE PopEmpty(p)
    BY WalkFirst, <2>7 DEF PopEmpty, TypeOK, ChainShape
  <2>8. CASE PopReadNext(p)
    BY WalkFirst, <2>8 DEF PopReadNext, TypeOK, ChainShape
  <2>9. CASE PopRetry(p)
    BY WalkFirst, <2>9 DEF PopRetry, TypeOK, ChainShape
  <2>10. CASE PopAllLoad(p)
    BY WalkFirst, <2>10 DEF PopAllLoad, TypeOK, ChainShape
  <2>11. CASE PopAllEmpty(p)
    BY WalkFirst, <2>11 DEF PopAllEmpty, TypeOK, ChainShape
  <2>12. CASE PopAllRetry(p)
    BY WalkFirst, <2>12 DEF PopAllRetry, TypeOK, ChainShape
  <2>13. CASE WalkDone(p)
    BY WalkFirst, <2>13 DEF WalkDone, TypeOK, ChainShape
  <2> QED
    BY <2>1, <2>2, <2>3, <2>4, <2>5, <2>6, <2>7, <2>8,
       <2>9, <2>10, <2>11, <2>12, <2>13 DEF Quiet
<1>2. \A q \in Proc : Clearing(q)' = Clearing(q)
  BY <1>1 DEF Clearing
<1>3. \A q \in Proc : Owned(q)' = Owned(q)
  BY <1>1, <1>2 DEF Owned
<1>4. ChainShape'
  BY <1>1 DEF ChainShape, Represents
<1> QED
  BY <1>1, <1>2, <1>3, <1>4

LEMMA UntouchedStep ==
  ASSUME TypeOK, ListShape, ChainShape, Conservation, Pointers, Untouched,
         [Next]_vars
  PROVE  Untouched'
<1> SUFFICES ASSUME NEW q \in Proc, q \in InPop', age'[q] = 0
             PROVE  /\ seen'[q].ptr \in InSeq(lst')
                    /\ pc'[q] = "pop_cas" => link'[q] = next'[seen'[q].ptr]
  BY DEF Untouched, InPop, InSeq
<1> DEFINE Goal == /\ seen'[q].ptr \in InSeq(lst')
                   /\ pc'[q] = "pop_cas" => link'[q] = next'[seen'[q].ptr]
<1>1. ASSUME NEW p \in Proc, Removes(p) PROVE FALSE
  <2>1. age[q] + 1 = 0 /\ age[q] \in 0 .. VersionMod - 1
    BY <1>1, Removal DEF TypeOK
  <2> QED
    BY <2>1
<1>2. ASSUME q \in InPop, age[q] = 0
      PROVE  /\ seen[q].ptr \in InSeq(lst) /\ seen[q].ptr \in Item
             /\ pc[q] = "pop_cas" => link[q] = next[seen[q].ptr]
  BY <1>2 DEF Untouched, InSeq, TypeOK
<1>3. ASSUME NEW p \in Proc, Writes(p) PROVE Goal
  <2>1. /\ p # q /\ q \in InPop /\ age[q] = 0
        /\ pc'[q] = pc[q] /\ seen'[q] = seen[q] /\ link'[q] = link[q]
        /\ lst' = lst
    BY <1>3 DEF Writes, PushLink, PopClear, WalkStep, InPop, TypeOK
  <2>2. next'[seen[q].ptr] = next[seen[q].ptr]
    BY <1>2, <1>3, <2>1, WriteOwn
  <2> QED
    BY <1>2, <2>1, <2>2
<1>4. ASSUME NEW p \in Proc, PushCas(p) PROVE Goal
  <2>1. /\ p # q /\ q \in InPop /\ age[q] = 0
        /\ pc'[q] = pc[q] /\ seen'[q] = seen[q] /\ link'[q] = link[q]
        /\ next' = next /\ lst' = <<arg[p]>> \o lst
        /\ arg[p] \in Item
    BY <1>4 DEF PushCas, InPop, TypeOK, Pointers, ThreadPointers
  <2>2. InSeq(lst) \subseteq InSeq(lst')
    BY <2>1, PrependFacts DEF TypeOK
  <2> QED
    BY <1>2, <2>1, <2>2
<1>5. ASSUME NEW p \in Proc, Quiet(p) PROVE Goal
  <2>1. UNCHANGED <<head, next, lst>>
    BY <1>5, QuietFrame
  <2>2. CASE PopLoad(p) /\ p = q
    <3>1. /\ seen'[q] = head /\ pc'[q] = "pop_next" /\ lst # <<>>
          /\ head.ptr = lst[1]
      BY <2>2, EmptyHead DEF PopLoad, TypeOK
    <3>2. 1 \in DOMAIN lst
      BY <3>1 DEF TypeOK
    <3> QED
      BY <2>1, <3>1, <3>2 DEF InSeq
  <2>3. CASE PopReadNext(p) /\ p = q
    BY <1>2, <2>1, <2>3 DEF PopReadNext, TypeOK, InPop
  <2>4. CASE ~ (p = q /\ (PopLoad(p) \/ PopReadNext(p)))
    <3>1. /\ q \in InPop /\ pc'[q] = pc[q] /\ seen'[q] = seen[q]
          /\ link'[q] = link[q] /\ age'[q] = age[q]
      <4>1. CASE PushCall(p)
        BY <2>4, <4>1 DEF PushCall, InPop, TypeOK
      <4>2. CASE PopCall(p)
        BY <2>4, <4>2 DEF PopCall, InPop, TypeOK
      <4>3. CASE PopAllCall(p)
        BY <2>4, <4>3 DEF PopAllCall, InPop, TypeOK
      <4>4. CASE PushLoad(p)
        BY <2>4, <4>4 DEF PushLoad, InPop, TypeOK
      <4>5. CASE PushRetry(p)
        BY <2>4, <4>5 DEF PushRetry, InPop, TypeOK
      <4>6. CASE PopLoad(p)
        BY <2>4, <4>6 DEF PopLoad, InPop, TypeOK
      <4>7. CASE PopEmpty(p)
        BY <2>4, <4>7 DEF PopEmpty, InPop, TypeOK
      <4>8. CASE PopReadNext(p)
        BY <2>4, <4>8 DEF PopReadNext, InPop, TypeOK
      <4>9. CASE PopRetry(p)
        BY <2>4, <4>9 DEF PopRetry, InPop, TypeOK
      <4>10. CASE PopAllLoad(p)
        BY <2>4, <4>10 DEF PopAllLoad, InPop, TypeOK
      <4>11. CASE PopAllEmpty(p)
        BY <2>4, <4>11 DEF PopAllEmpty, InPop, TypeOK
      <4>12. CASE PopAllRetry(p)
        BY <2>4, <4>12 DEF PopAllRetry, InPop, TypeOK
      <4>13. CASE WalkDone(p)
        BY <2>4, <4>13 DEF WalkDone, InPop, TypeOK
      <4> QED
        BY <1>5, <2>4, <4>1, <4>2, <4>3, <4>4, <4>5, <4>6, <4>7, <4>8,
           <4>9, <4>10, <4>11, <4>12, <4>13 DEF Quiet
    <3> QED
      BY <1>2, <2>1, <3>1
  <2> QED
    BY <2>2, <2>3, <2>4
<1>6. CASE UNCHANGED vars
  BY <1>2, <1>6 DEF vars, InPop
<1> QED
  BY <1>1, <1>3, <1>4, <1>5, <1>6, StepKinds DEF Next

-----------------------------------------------------------------------------
LEMMA ListShapeStep ==
  ASSUME TypeOK, ListShape, ChainShape, Conservation, Pointers, Versions,
         Untouched, [Next]_vars
  PROVE  ListShape'
<1> DEFINE Shape(h, n, s) == /\ h.ptr = First(s)
                             /\ \A i \in DOMAIN s : n[s[i]] = After(s, i)
<1>0. /\ lst \in Seq(Item) /\ Shape(head, next, lst)
      /\ ListShape' <=> Shape(head', next', lst')
  BY DEF TypeOK, ListShape, Represents, First, After
<1>1. ASSUME NEW p \in Proc, Quiet(p) PROVE ListShape'
  <2>1. UNCHANGED <<head, next, lst>>
    BY <1>1, QuietFrame
  <2> QED
    BY <1>0, <2>1
<1>2. ASSUME NEW p \in Proc, Writes(p) PROVE ListShape'
  <2>1. UNCHANGED <<head, lst>>
    BY <1>2 DEF Writes, PushLink, PopClear, WalkStep
  <2>2. \A i \in DOMAIN lst : lst[i] \in Item /\ lst[i] # arg[p]
    BY <1>0, <1>2, WriteOwn DEF InSeq
  <2>3. \A i \in DOMAIN lst : next'[lst[i]] = next[lst[i]]
    BY <1>2, <2>2, WriteOwn
  <2> QED
    BY <1>0, <2>1, <2>3
<1>3. ASSUME NEW p \in Proc, PushCas(p) PROVE ListShape'
  <2>1. /\ arg[p] \in Item /\ next[arg[p]] = head.ptr
        /\ head'.ptr = arg[p] /\ next' = next
    BY <1>3 DEF PushCas, Pointers, ThreadPointers, TypeOK
  <2> DEFINE t == <<arg[p]>> \o lst
  <2>2. /\ lst' = t /\ t \in Seq(Item) /\ Len(t) = Len(lst) + 1 /\ t # <<>>
        /\ t[1] = arg[p] /\ \A i \in 1 .. Len(lst) : t[i + 1] = lst[i]
    BY <1>0, <1>3, <2>1, PrependFacts DEF PushCas
  <2> HIDE DEF t
  <2>3. head'.ptr = First(t)
    BY <2>1, <2>2 DEF First
  <2>4. ASSUME NEW i \in DOMAIN t PROVE next[t[i]] = After(t, i)
    <3>1. CASE i = 1 /\ lst = <<>>
      BY <1>0, <2>1, <2>2, <3>1 DEF First, After
    <3>2. CASE i = 1 /\ lst # <<>>
      <4>1. Len(t) # 1 /\ t[1 + 1] = lst[1] /\ head.ptr = lst[1]
        BY <1>0, <2>2, <3>2 DEF First
      <4> QED
        BY <2>1, <2>2, <3>2, <4>1 DEF After
    <3>3. CASE i # 1
      <4>1. /\ i - 1 \in 1 .. Len(lst) /\ t[(i - 1) + 1] = lst[i - 1]
            /\ (i - 1) + 1 = i
        BY <2>2, <3>3
      <4>2. next[lst[i - 1]] = After(lst, i - 1)
        BY <1>0, <4>1
      <4>3. After(lst, i - 1) = After(t, i)
        <5>1. CASE i = Len(t)
          BY <1>0, <2>2, <4>1, <5>1 DEF After
        <5>2. CASE i # Len(t)
          <6>1. i \in 1 .. Len(lst) /\ i - 1 # Len(lst)
            BY <1>0, <2>2, <4>1, <5>2
          <6>2. t[i + 1] = lst[i]
            BY <2>2, <6>1
          <6> QED
            BY <1>0, <4>1, <5>2, <6>1, <6>2 DEF After
        <5> QED
          BY <5>1, <5>2
      <4> QED
        BY <4>1, <4>2, <4>3
    <3> QED
      BY <3>1, <3>2, <3>3
  <2> QED
    BY <1>0, <2>1, <2>2, <2>3, <2>4
<1>4. ASSUME NEW p \in Proc, PopCas(p) PROVE ListShape'
  <2>1. /\ lst # <<>> /\ link[p] = After(lst, 1)
        /\ head'.ptr = link[p] /\ next' = next
    BY <1>4, EmptyHead, SameHead DEF PopCas, Pointers, ThreadPointers
  <2> DEFINE t == Tail(lst)
  <2>2. /\ lst' = t /\ t \in Seq(Item) /\ Len(t) = Len(lst) - 1
        /\ \A i \in 1 .. Len(t) : t[i] = lst[i + 1]
    BY <1>0, <1>4, <2>1, TailFacts DEF PopCas
  <2> HIDE DEF t
  <2>3. head'.ptr = First(t)
    <3>1. CASE t = <<>>
      BY <1>0, <2>1, <2>2, <3>1 DEF First, After
    <3>2. CASE t # <<>>
      BY <1>0, <2>1, <2>2, <3>2 DEF First, After
    <3> QED
      BY <3>1, <3>2
  <2>4. ASSUME NEW i \in DOMAIN t PROVE next[t[i]] = After(t, i)
    <3>1. i + 1 \in DOMAIN lst /\ t[i] = lst[i + 1]
      BY <1>0, <2>2
    <3>2. next[t[i]] = After(lst, i + 1)
      BY <1>0, <3>1
    <3>3. After(lst, i + 1) = After(t, i)
      <4>1. CASE i = Len(t)
        BY <1>0, <2>2, <4>1 DEF After
      <4>2. CASE i # Len(t)
        <5>1. i + 1 \in 1 .. Len(t) /\ i + 1 # Len(lst)
          BY <1>0, <2>2, <4>2
        <5> QED
          BY <2>2, <4>2, <5>1 DEF After
      <4> QED
        BY <4>1, <4>2
    <3> QED
      BY <3>2, <3>3
  <2> QED
    BY <1>0, <2>1, <2>2, <2>3, <2>4
<1>5. ASSUME NEW p \in Proc, PopAllCas(p) PROVE ListShape'
  BY <1>0, <1>5 DEF PopAllCas, First
<1>6. CASE UNCHANGED vars
  BY <1>0, <1>6 DEF vars
<1> QED
  BY <1>1, <1>2, <1>3, <1>4, <1>5, <1>6, StepKinds DEF Next, Removes

LEMMA ChainShapeStep ==
  ASSUME TypeOK, ListShape, ChainShape, Conservation, Pointers, [Next]_vars
  PROVE  ChainShape'
<1> DEFINE Shape(a, n, s) == /\ a = First(s)
                             /\ \A i \in DOMAIN s : n[s[i]] = After(s, i)
           Good(c, a, n, s) == IF c = "walk" THEN Shape(a, n, s) ELSE s = <<>>
<1>0. /\ ChainShape => \A q \in Proc : Good(pc[q], arg[q], next, chain[q])
      /\ (\A q \in Proc : Good(pc'[q], arg'[q], next', chain'[q])) => ChainShape'
  BY DEF ChainShape, Represents, First, After
<1>1. ASSUME NEW p \in Proc, Quiet(p) PROVE ChainShape'
  BY <1>1, QuietFrame
<1>2. ASSUME NEW p \in Proc, Writes(p), NEW q \in Proc, p # q
      PROVE  Good(pc'[q], arg'[q], next', chain'[q])
  <2>1. pc'[q] = pc[q] /\ arg'[q] = arg[q] /\ chain'[q] = chain[q]
    BY <1>2 DEF Writes, PushLink, PopClear, WalkStep, TypeOK
  <2>2. \A i \in DOMAIN chain[q] : chain[q][i] \in Item /\ chain[q][i] # arg[p]
    <3>1. chain[q] \in Seq(Item)
      BY DEF TypeOK
    <3>2. \A i \in DOMAIN chain[q] : chain[q][i] \in Owned(q)
      BY DEF Owned, InSeq
    <3> QED
      BY <1>2, <3>1, <3>2, WriteOwn
  <2>3. \A i \in DOMAIN chain[q] : next'[chain[q][i]] = next[chain[q][i]]
    BY <1>2, <2>2, WriteOwn
  <2> QED
    BY <1>0, <2>1, <2>3
<1>3. ASSUME NEW p \in Proc, PushLink(p) \/ PopClear(p)
      PROVE  Good(pc'[p], arg'[p], next', chain'[p])
  BY <1>0, <1>3 DEF PushLink, PopClear, TypeOK
<1>4. ASSUME NEW p \in Proc, WalkStep(p)
      PROVE  Good(pc'[p], arg'[p], next', chain'[p])
  <2> DEFINE s == chain[p]
             t == Tail(chain[p])
  <2>1. /\ s \in Seq(Item) /\ s # <<>> /\ arg[p] = s[1] /\ Shape(arg[p], next, s)
        /\ next[arg[p]] = After(s, 1)
    BY <1>0, <1>4, WalkFirst DEF WalkStep, TypeOK
  <2>2. pc'[p] = "walk" /\ arg'[p] = next[arg[p]] /\ chain'[p] = t
    BY <1>4 DEF WalkStep, TypeOK
  <2>3. /\ t \in Seq(Item) /\ Len(t) = Len(s) - 1
        /\ \A i \in 1 .. Len(t) : t[i] = s[i + 1]
        /\ s[1] \notin InSeq(t)
    BY <2>1, TailFacts DEF Conservation
  <2> HIDE DEF s, t
  <2>4. arg'[p] = First(t)
    <3>1. CASE t = <<>>
      BY <2>1, <2>2, <2>3, <3>1 DEF First, After
    <3>2. CASE t # <<>>
      BY <2>1, <2>2, <2>3, <3>2 DEF First, After
    <3> QED
      BY <3>1, <3>2
  <2>5. ASSUME NEW i \in DOMAIN t PROVE next'[t[i]] = After(t, i)
    <3>1. i + 1 \in DOMAIN s /\ t[i] = s[i + 1] /\ t[i] \in Item \ {arg[p]}
      BY <2>1, <2>3 DEF InSeq
    <3>2. next'[t[i]] = next[t[i]]
      BY <1>4, <3>1, WriteOwn DEF Writes
    <3>3. next[t[i]] = After(s, i + 1)
      BY <2>1, <3>1
    <3>4. After(s, i + 1) = After(t, i)
      <4>1. CASE i = Len(t)
        BY <2>1, <2>3, <4>1 DEF After
      <4>2. CASE i # Len(t)
        <5>1. i + 1 \in 1 .. Len(t) /\ i + 1 # Len(s)
          BY <2>1, <2>3, <4>2
        <5> QED
          BY <2>3, <4>2, <5>1 DEF After
      <4> QED
        BY <4>1, <4>2
    <3> QED
      BY <3>2, <3>3, <3>4
  <2> QED
    BY <2>2, <2>4, <2>5
<1>5. ASSUME NEW p \in Proc, PushCas(p) \/ PopCas(p), NEW q \in Proc
      PROVE  Good(pc'[q], arg'[q], next', chain'[q])
  BY <1>0, <1>5 DEF PushCas, PopCas, TypeOK
<1>6. ASSUME NEW p \in Proc, PopAllCas(p), NEW q \in Proc
      PROVE  Good(pc'[q], arg'[q], next', chain'[q])
  <2>1. CASE p = q
    <3>1. /\ pc'[q] = "walk" /\ arg'[q] = head.ptr /\ chain'[q] = lst
          /\ next' = next
      BY <1>6, <2>1 DEF PopAllCas, TypeOK
    <3>2. Shape(head.ptr, next, lst)
      BY DEF ListShape, Represents
    <3> QED
      BY <3>1, <3>2
  <2>2. CASE p # q
    BY <1>0, <1>6, <2>2 DEF PopAllCas, TypeOK
  <2> QED
    BY <2>1, <2>2
<1>7. CASE UNCHANGED vars
  BY <1>0, <1>7 DEF vars
<1>8. ASSUME NEW p \in Proc, Writes(p) PROVE ChainShape'
  <2>1. Good(pc'[p], arg'[p], next', chain'[p])
    BY <1>3, <1>4, <1>8 DEF Writes
  <2> QED
    BY <1>0, <1>2, <1>8, <2>1
<1>9. ASSUME NEW p \in Proc, PushCas(p) \/ Removes(p) PROVE ChainShape'
  BY <1>0, <1>5, <1>6, <1>9 DEF Removes
<1> QED
  BY <1>1, <1>7, <1>8, <1>9, StepKinds DEF Next

-----------------------------------------------------------------------------
(* What holds of the places of thread p alone, and of all threads together. *)
Places(p) ==
  /\ Distinct(chain[p])
  /\ held[p] \cap InSeq(chain[p]) = {}
  /\ (held[p] \cup InSeq(chain[p])) \cap Clearing(p) = {}

Partition ==
  /\ Distinct(lst)
  /\ \A p \in Proc : Owned(p) \cap InSeq(lst) = {}
  /\ \A p, q \in Proc : p # q => Owned(p) \cap Owned(q) = {}
  /\ \A x \in Item : x \in InSeq(lst) \/ \E p \in Proc : x \in Owned(p)

LEMMA ConservationParts ==
  Conservation <=> Partition /\ \A p \in Proc : Places(p)
BY DEF Conservation, Partition, Places

(* A step of p changes no place of another thread. *)
LEMMA OtherPlaces ==
  ASSUME TypeOK, NEW p \in Proc, Writes(p) \/ Removes(p) \/ PushCas(p),
         NEW q \in Proc \ {p}
  PROVE  /\ chain'[q] = chain[q] /\ held'[q] = held[q]
         /\ Clearing(q)' = Clearing(q)
         /\ Owned(q)' = Owned(q)
<1>1. /\ chain'[q] = chain[q] /\ held'[q] = held[q]
      /\ pc'[q] = pc[q] /\ arg'[q] = arg[q]
  BY DEF Writes, Removes, PushLink, PopClear, WalkStep, PopCas, PopAllCas,
         PushCas, TypeOK
<1> QED
  BY <1>1 DEF Clearing, Owned

(***************************************************************************)
(* What each kind of step does to what its thread owns: a write of a link  *)
(* nothing, and each successful compare-and-swap moves the items that the  *)
(* stack of SharedStack moves.                                             *)
(***************************************************************************)
LEMMA WritesKeep ==
  ASSUME TypeOK, ChainShape, Conservation, Pointers, NEW p \in Proc, Writes(p)
  PROVE  Owned(p)' = Owned(p) /\ Places(p)' /\ lst' = lst
<1>0. Places(p)
  BY ConservationParts
<1>1. CASE PushLink(p)
  <2>1. /\ chain'[p] = chain[p] /\ held'[p] = held[p] /\ lst' = lst
        /\ Clearing(p)' = Clearing(p)
    BY <1>1 DEF PushLink, Clearing, TypeOK
  <2> QED
    BY <1>0, <2>1 DEF Owned, Places, Distinct, InSeq
<1>2. CASE PopClear(p)
  <2>1. /\ chain'[p] = chain[p] /\ held'[p] = held[p] \cup {arg[p]} /\ lst' = lst
        /\ Clearing(p) = {arg[p]} /\ Clearing(p)' = {}
    BY <1>2 DEF PopClear, Clearing, TypeOK
  <2> QED
    BY <1>0, <2>1 DEF Owned, Places, Distinct, InSeq
<1>3. CASE WalkStep(p)
  <2>1. chain[p] \in Seq(Item) /\ chain[p] # <<>> /\ arg[p] = chain[p][1]
    BY <1>3, WalkFirst DEF WalkStep, TypeOK
  <2>2. /\ chain'[p] = Tail(chain[p]) /\ held'[p] = held[p] \cup {arg[p]}
        /\ Clearing(p) = {} /\ Clearing(p)' = {} /\ lst' = lst
    BY <1>3 DEF WalkStep, Clearing, TypeOK
  <2>3. /\ InSeq(chain[p]) = {arg[p]} \cup InSeq(chain'[p])
        /\ Distinct(chain'[p]) /\ arg[p] \notin InSeq(chain'[p])
    BY <1>0, <2>1, <2>2, TailFacts DEF Places
  <2>4. Owned(p)' = held'[p] \cup InSeq(chain'[p]) \cup Clearing(p)'
    BY DEF Owned, InSeq
  <2>5. Owned(p)' = Owned(p)
    BY <2>2, <2>3, <2>4 DEF Owned
  <2>6. held'[p] \cap InSeq(chain'[p]) = {}
    BY <1>0, <2>2, <2>3 DEF Places
  <2>7. Places(p)'
    BY <2>2, <2>3, <2>6 DEF Places, Distinct, InSeq
  <2> QED
    BY <2>2, <2>5, <2>7
<1> QED
  BY <1>1, <1>2, <1>3 DEF Writes

LEMMA PushCasMoves ==
  ASSUME TypeOK, Conservation, Pointers, NEW p \in Proc, PushCas(p)
  PROVE  /\ arg[p] \in Owned(p) /\ arg[p] \in Item
         /\ lst' = <<arg[p]>> \o lst
         /\ Owned(p)' = Owned(p) \ {arg[p]}
         /\ Places(p)'
<1>1. Places(p) /\ arg[p] \in held[p] /\ arg[p] \in Item
  BY ConservationParts DEF PushCas, Pointers, ThreadPointers, TypeOK
<1>2. /\ chain'[p] = chain[p] /\ held'[p] = held[p] \ {arg[p]}
      /\ Clearing(p) = {} /\ Clearing(p)' = {} /\ lst' = <<arg[p]>> \o lst
  BY DEF PushCas, Clearing, TypeOK
<1>3. Owned(p)' = Owned(p) \ {arg[p]}
  BY <1>1, <1>2 DEF Owned, Places, InSeq
<1>4. Places(p)'
  BY <1>1, <1>2 DEF Places, Distinct, InSeq
<1> QED
  BY <1>1, <1>2, <1>3, <1>4 DEF Owned

LEMMA PopCasMoves ==
  ASSUME TypeOK, ListShape, Conservation, Pointers, NEW p \in Proc, PopCas(p)
  PROVE  /\ lst # <<>> /\ head.ptr = lst[1]
         /\ lst' = Tail(lst)
         /\ Owned(p)' = Owned(p) \cup {lst[1]}
         /\ Places(p)'
<1>1. Places(p) /\ lst # <<>> /\ head.ptr = lst[1]
  BY ConservationParts, EmptyHead DEF PopCas, Pointers, ThreadPointers
<1>2. /\ chain'[p] = chain[p] /\ held'[p] = held[p]
      /\ Clearing(p) = {} /\ Clearing(p)' = {lst[1]} /\ lst' = Tail(lst)
  BY <1>1 DEF PopCas, Clearing, TypeOK
<1>3. Owned(p)' = Owned(p) \cup {lst[1]}
  BY <1>2 DEF Owned, InSeq
<1>4. lst[1] \notin Owned(p)
  <2>1. 1 \in DOMAIN lst
    BY <1>1 DEF TypeOK
  <2> QED
    BY <2>1 DEF Conservation, InSeq
<1>5. Places(p)'
  BY <1>1, <1>2, <1>4 DEF Places, Distinct, InSeq, Owned
<1> QED
  BY <1>1, <1>2, <1>3, <1>5

LEMMA PopAllCasMoves ==
  ASSUME TypeOK, ChainShape, Conservation, NEW p \in Proc, PopAllCas(p)
  PROVE  /\ lst' = <<>>
         /\ Owned(p)' = Owned(p) \cup InSeq(lst)
         /\ Places(p)'
<1>1. Partition /\ Places(p) /\ chain[p] = <<>>
  BY ConservationParts DEF PopAllCas, ChainShape
<1>2. /\ chain'[p] = lst /\ held'[p] = held[p]
      /\ Clearing(p) = {} /\ Clearing(p)' = {} /\ lst' = <<>>
  BY DEF PopAllCas, Clearing, TypeOK
<1>3. InSeq(chain[p]) = {}
  BY <1>1 DEF InSeq
<1>4. Owned(p)' = Owned(p) \cup InSeq(lst)
  BY <1>2, <1>3 DEF Owned, InSeq
<1>5. Places(p)'
  BY <1>1, <1>2 DEF Places, Partition, Owned, Distinct, InSeq
<1> QED
  BY <1>2, <1>4, <1>5

(* Prepending an item that is not there yet keeps a sequence distinct. *)
LEMMA PrependDistinct ==
  ASSUME NEW s \in Seq(Item), NEW x \in Item, Distinct(s), x \notin InSeq(s)
  PROVE  Distinct(<<x>> \o s)
<1> DEFINE t == <<x>> \o s
<1>1. /\ t \in Seq(Item) /\ Len(t) = Len(s) + 1 /\ t[1] = x
      /\ \A i \in 1 .. Len(s) : t[i + 1] = s[i]
  BY PrependFacts
<1> HIDE DEF t
<1> SUFFICES ASSUME NEW i \in 1 .. Len(s) + 1, NEW j \in 1 .. Len(s) + 1,
                    t[i] = t[j]
             PROVE  i = j
  BY <1>1 DEF Distinct, t
<1>2. ASSUME NEW k \in 1 .. Len(s) + 1, k # 1
      PROVE  k - 1 \in DOMAIN s /\ t[k] = s[k - 1] /\ s[k - 1] # x
  <2>1. k - 1 \in 1 .. Len(s) /\ (k - 1) + 1 = k
    BY <1>2
  <2>2. k - 1 \in DOMAIN s /\ t[k] = s[k - 1]
    BY <1>1, <2>1
  <2> QED
    BY <2>2 DEF InSeq
<1>3. CASE i = 1 \/ j = 1
  BY <1>1, <1>2, <1>3
<1>4. CASE i # 1 /\ j # 1
  <2>1. s[i - 1] = s[j - 1] /\ i - 1 \in DOMAIN s /\ j - 1 \in DOMAIN s
    BY <1>2, <1>4
  <2>2. i - 1 = j - 1
    BY <2>1 DEF Distinct
  <2> QED
    BY <2>2
<1> QED
  BY <1>3, <1>4

LEMMA ConservationStep ==
  ASSUME TypeOK, ListShape, ChainShape, Conservation, Pointers, [Next]_vars
  PROVE  Conservation'
<1>0. /\ Partition /\ \A q \in Proc : Places(q)
      /\ (Partition' /\ \A q \in Proc : Places(q)') => Conservation'
  BY DEF Conservation, Partition, Places
<1>1. ASSUME NEW p \in Proc, Quiet(p) PROVE Conservation'
  <2>1. /\ UNCHANGED <<held, lst, chain>>
        /\ \A q \in Proc : Clearing(q)' = Clearing(q) /\ Owned(q)' = Owned(q)
    BY <1>1, QuietFrame
  <2> QED
    BY <2>1 DEF Conservation, Distinct, InSeq
<1>2. ASSUME NEW p \in Proc, Writes(p) \/ Removes(p) \/ PushCas(p), Places(p)'
      PROVE  /\ \A q \in Proc : Places(q)'
             /\ \A q \in Proc \ {p} : Owned(q)' = Owned(q)
  BY <1>0, <1>2, OtherPlaces DEF Places, Distinct, InSeq
<1>3. ASSUME NEW p \in Proc, Writes(p) PROVE Conservation'
  <2>1. Places(p)' /\ lst' = lst /\ Owned(p)' = Owned(p)
    BY <1>3, WritesKeep
  <2>2. \A q \in Proc : Owned(q)' = Owned(q) /\ Places(q)'
    BY <1>2, <1>3, <2>1
  <2>3. Partition'
    BY <1>0, <2>1, <2>2 DEF Partition, Distinct, InSeq
  <2> QED
    BY <1>0, <2>2, <2>3
<1>4. ASSUME NEW p \in Proc, PushCas(p) PROVE Conservation'
  <2>1. /\ arg[p] \in Owned(p) /\ arg[p] \in Item /\ lst' = <<arg[p]>> \o lst
        /\ Owned(p)' = Owned(p) \ {arg[p]} /\ Places(p)'
    BY <1>4, PushCasMoves
  <2>2. /\ \A q \in Proc : Places(q)'
        /\ \A q \in Proc \ {p} : Owned(q)' = Owned(q)
    BY <1>2, <1>4, <2>1
  <2>3. InSeq(lst') = {arg[p]} \cup InSeq(lst) /\ Distinct(lst')
    <3>1. lst \in Seq(Item) /\ arg[p] \notin InSeq(lst) /\ Distinct(lst)
      BY <1>0, <2>1 DEF TypeOK, Partition
    <3> QED
      BY <2>1, <3>1, PrependFacts, PrependDistinct
  <2>4. \A q \in Proc \ {p} : arg[p] \notin Owned(q)
    BY <1>0, <2>1 DEF Partition
  <2>5. \A q \in Proc : Owned(q)' \cap InSeq(lst') = {}
    BY <1>0, <2>1, <2>2, <2>3, <2>4 DEF Partition
  <2>6. \A q, r \in Proc : q # r => Owned(q)' \cap Owned(r)' = {}
    BY <1>0, <2>1, <2>2 DEF Partition
  <2>7. \A x \in Item : x \in InSeq(lst') \/ \E q \in Proc : x \in Owned(q)'
    BY <1>0, <2>1, <2>2, <2>3 DEF Partition
  <2>8. Partition'
    BY <2>3, <2>5, <2>6, <2>7 DEF Partition, InSeq, Distinct
  <2> QED
    BY <1>0, <2>2, <2>8
<1>5. ASSUME NEW p \in Proc, PopCas(p) PROVE Conservation'
  <2>1. /\ lst # <<>> /\ lst' = Tail(lst) /\ lst \in Seq(Item)
        /\ Owned(p)' = Owned(p) \cup {lst[1]} /\ Places(p)'
    BY <1>5, PopCasMoves DEF TypeOK
  <2>2. /\ \A q \in Proc : Places(q)'
        /\ \A q \in Proc \ {p} : Owned(q)' = Owned(q)
    BY <1>2, <1>5, <2>1 DEF Removes
  <2>3. /\ InSeq(lst) = {lst[1]} \cup InSeq(lst')
        /\ Distinct(lst') /\ lst[1] \notin InSeq(lst')
    BY <1>0, <2>1, TailFacts DEF Partition
  <2>4. Partition'
    BY <1>0, <2>1, <2>2, <2>3 DEF Partition, InSeq
  <2> QED
    BY <1>0, <2>2, <2>4
<1>6. ASSUME NEW p \in Proc, PopAllCas(p) PROVE Conservation'
  <2>1. lst' = <<>> /\ Owned(p)' = Owned(p) \cup InSeq(lst) /\ Places(p)'
    BY <1>6, PopAllCasMoves
  <2>2. /\ \A q \in Proc : Places(q)'
        /\ \A q \in Proc \ {p} : Owned(q)' = Owned(q)
    BY <1>2, <1>6, <2>1 DEF Removes
  <2>3. InSeq(lst') = {} /\ Distinct(lst')
    BY <2>1 DEF InSeq, Distinct
  <2>4. Partition'
    BY <1>0, <2>1, <2>2, <2>3 DEF Partition, InSeq
  <2> QED
    BY <1>0, <2>2, <2>4
<1>7. CASE UNCHANGED vars
  BY <1>7 DEF vars, Conservation, Distinct, InSeq, Owned, Clearing
<1> QED
  BY <1>1, <1>3, <1>4, <1>5, <1>6, <1>7, StepKinds DEF Next, Removes

-----------------------------------------------------------------------------
LEMMA InitPlaces ==
  ASSUME Init, NEW p \in Proc
  PROVE  InSeq(chain[p]) = {} /\ Distinct(chain[p]) /\ Clearing(p) = {}
<1>1. chain[p] = <<>> /\ pc[p] = "idle"
  BY DEF Init
<1> QED
  BY <1>1 DEF InSeq, Distinct, Clearing

LEMMA InitInvariant == Init => IInv
<1> SUFFICES ASSUME Init PROVE IInv
  OBVIOUS
<1>1. TypeOK
  BY DEF Init, TypeOK, HeadP, NoHead, Ptr, Version
<1>2. ListShape /\ ChainShape
  BY DEF Init, ListShape, ChainShape, Represents, First, NoHead
<1>3. \A p \in Proc : InSeq(chain[p]) = {} /\ Distinct(chain[p]) /\ Clearing(p) = {}
  BY InitPlaces
<1>4. InSeq(lst) = {} /\ Distinct(lst)
  BY DEF Init, InSeq, Distinct
<1>5. PICK owner \in [Item -> Proc] :
        held = [p \in Proc |-> {x \in Item : owner[x] = p}]
  BY DEF Init
<1>6. \A p \in Proc : Owned(p) = {x \in Item : owner[x] = p}
  BY <1>3, <1>5 DEF Owned
<1>7. Conservation
  BY <1>3, <1>4, <1>5, <1>6 DEF Conservation
<1>8. Pointers /\ InPop = {}
  BY DEF Init, Pointers, ThreadPointers, InPop
<1>9. Versions /\ Untouched
  BY <1>8 DEF Versions, Untouched
<1> QED
  BY <1>1, <1>2, <1>7, <1>8, <1>9 DEF IInv

LEMMA StepInvariant == IInv /\ [Next]_vars => IInv'
BY TypeStep, ListShapeStep, ChainShapeStep, ConservationStep, PointersStep,
   VersionsStep, UntouchedStep DEF IInv

LEMMA Invariant == Spec => []IInv
BY InitInvariant, StepInvariant, PTL DEF Spec

(***************************************************************************)
(* Every variable keeps its type: the version that pop and popall install  *)
(* fits its field, and no thread follows a link out of the items.          *)
(***************************************************************************)
THEOREM TypeCorrect == Spec => []TypeOK
BY Invariant, PTL DEF IInv

(* From the head, atomiclist's links spell out the list: nothing is cut off. *)
THEOREM ListKeepsShape == Spec => []ListShape
BY Invariant, PTL DEF IInv

(***************************************************************************)
(* A chain that popall has returned is spelled out by its links while its  *)
(* owner walks it, although the other threads push and pop meanwhile.      *)
(***************************************************************************)
THEOREM ChainsKeepShape == Spec => []ChainShape
BY Invariant, PTL DEF IInv

(* No item is lost, duplicated or given to two threads. *)
THEOREM ItemsConserved == Spec => []Conservation
BY Invariant, PTL DEF IInv

(***************************************************************************)
(* A compare-and-swap of pop that succeeds installs the current successor: *)
(* no ABA while fewer than VersionMod removals fall into one attempt.      *)
(***************************************************************************)
THEOREM NoABA == Spec => []PopLinkIsCurrent
<1>1. IInv => PopLinkIsCurrent
  <2> SUFFICES ASSUME IInv, NEW p \in Proc, pc[p] = "pop_cas", head = seen[p]
               PROVE  lst # <<>> /\ link[p] = After(lst, 1)
    BY DEF PopLinkIsCurrent
  <2>1. head.ptr # Null
    BY DEF IInv, Pointers, ThreadPointers
  <2> QED
    BY <2>1, SameHead, EmptyHead DEF IInv
<1> QED
  BY <1>1, Invariant, PTL

-----------------------------------------------------------------------------
(* The pointer in the head is what a call on the stack returns. *)
LEMMA HeadIsTop ==
  ASSUME TypeOK, ListShape
  PROVE  head.ptr = Stack!Top(lst)
<1>1. CASE lst = <<>>
  BY <1>1, EmptyHead DEF Stack!Top
<1>2. CASE lst # <<>>
  BY <1>2, EmptyHead DEF Stack!Top, TypeOK
<1> QED
  BY <1>1, <1>2

(* The step on the stack that a step on the list is. *)
LEMMA StackStep ==
  ASSUME IInv, NEW p \in Proc, Call(p) \/ Step(p)
  PROVE  \/ Stack!Push(p, arg[p]) /\ arg[p] \in Item
         \/ Stack!Pop(p) \/ Stack!PopAll(p) \/ UNCHANGED Stack!stackVars
<1> DEFINE owned == [q \in Proc |-> Owned(q)]
<1> USE DEF IInv
<1>1. CASE Writes(p)
  <2>1. \A q \in Proc : Owned(q)' = Owned(q)
    BY <1>1, WritesKeep, OtherPlaces
  <2>2. lst' = lst /\ ret' = ret
    BY <1>1 DEF Writes, PushLink, PopClear, WalkStep
  <2> QED
    BY <2>1, <2>2 DEF Stack!stackVars
<1>2. CASE PushCas(p)
  <2>1. /\ arg[p] \in Owned(p) /\ arg[p] \in Item
        /\ lst' = <<arg[p]>> \o lst /\ Owned(p)' = Owned(p) \ {arg[p]}
    BY <1>2, PushCasMoves
  <2>2. \A q \in Proc \ {p} : Owned(q)' = Owned(q)
    BY <1>2, OtherPlaces
  <2>3. ret' = [ret EXCEPT ![p] = Stack!Top(lst)]
    BY <1>2, HeadIsTop DEF PushCas
  <2>4. owned' = [owned EXCEPT ![p] = @ \ {arg[p]}]
    BY <2>1, <2>2
  <2> QED
    BY <2>1, <2>3, <2>4 DEF Stack!Push
<1>3. CASE PopCas(p)
  <2>1. /\ lst # <<>> /\ lst' = Tail(lst) /\ head.ptr = lst[1]
        /\ Owned(p)' = Owned(p) \cup {lst[1]} /\ lst[1] \in Item
    BY <1>3, PopCasMoves DEF TypeOK
  <2>2. \A q \in Proc \ {p} : Owned(q)' = Owned(q)
    BY <1>3, OtherPlaces DEF Removes
  <2>3. p \in Poppers /\ Stack!Top(lst) = lst[1] /\ lst[1] # Null
    BY <1>3, <2>1 DEF PopCas, Pointers, ThreadPointers, Stack!Top
  <2>4. ret' = [ret EXCEPT ![p] = lst[1]]
    BY <1>3, <2>1 DEF PopCas
  <2>5. owned' = [owned EXCEPT ![p] = @ \cup ({lst[1]} \ {Null})]
    BY <2>1, <2>2, <2>3
  <2> QED
    BY <2>1, <2>3, <2>4, <2>5 DEF Stack!Pop
<1>4. CASE PopAllCas(p)
  <2>1. lst' = <<>> /\ Owned(p)' = Owned(p) \cup InSeq(lst)
    BY <1>4, PopAllCasMoves
  <2>2. \A q \in Proc \ {p} : Owned(q)' = Owned(q)
    BY <1>4, OtherPlaces DEF Removes
  <2>3. ret' = [ret EXCEPT ![p] = Stack!Top(lst)]
    BY <1>4, HeadIsTop DEF PopAllCas
  <2>4. owned' = [owned EXCEPT ![p] = @ \cup Stack!ItemsOf(lst)]
    BY <2>1, <2>2 DEF InSeq, Stack!ItemsOf
  <2> QED
    BY <2>1, <2>3, <2>4 DEF Stack!PopAll
<1>5. CASE Quiet(p)
  <2>1. lst' = lst /\ \A q \in Proc : Owned(q)' = Owned(q)
    BY <1>5, QuietFrame
  <2>2. owned' = owned
    BY <2>1
  <2>3. CASE PopEmpty(p)
    <3>1. p \in Poppers /\ lst = <<>> /\ ret' = [ret EXCEPT ![p] = Null]
      BY <2>3, EmptyHead DEF PopEmpty, Pointers, ThreadPointers
    <3>2. owned' = [owned EXCEPT ![p] = @ \cup ({Null} \ {Null})]
      BY <2>2
    <3> QED
      BY <2>1, <3>1, <3>2 DEF Stack!Pop, Stack!Top
  <2>4. CASE PopAllEmpty(p)
    <3>1. lst = <<>> /\ ret' = [ret EXCEPT ![p] = Null]
      BY <2>4, EmptyHead DEF PopAllEmpty
    <3>2. Stack!ItemsOf(lst) = {}
      BY <3>1 DEF Stack!ItemsOf
    <3>3. owned' = [owned EXCEPT ![p] = @ \cup Stack!ItemsOf(lst)]
      BY <2>2, <3>2
    <3> QED
      BY <2>1, <3>1, <3>3 DEF Stack!PopAll, Stack!Top
  <2>5. CASE ~ PopEmpty(p) /\ ~ PopAllEmpty(p)
    <3>1. ret' = ret
      BY <1>5, <2>5 DEF Quiet, PushCall, PushLoad, PushRetry, PopCall, PopLoad,
         PopReadNext, PopRetry, PopAllCall, PopAllLoad, PopAllRetry, WalkDone
    <3> QED
      BY <2>1, <2>2, <3>1 DEF Stack!stackVars
  <2> QED
    BY <2>3, <2>4, <2>5
<1> QED
  BY <1>1, <1>2, <1>3, <1>4, <1>5, StepKinds DEF Removes

(***************************************************************************)
(* The list implements the stack: each call takes effect in one step and   *)
(* returns what was on top, for any number of threads.                     *)
(***************************************************************************)
THEOREM Refinement == Spec => ImplementsStack
<1>1. Init => Stack!StackInit
  <2> SUFFICES ASSUME Init PROVE Stack!StackInit
    OBVIOUS
  <2>1. PICK owner \in [Item -> Proc] :
          held = [p \in Proc |-> {x \in Item : owner[x] = p}]
    BY DEF Init
  <2>2. \A p \in Proc : InSeq(chain[p]) = {} /\ Clearing(p) = {}
    BY InitPlaces
  <2>3. \A p \in Proc : Owned(p) = {x \in Item : owner[x] = p}
    BY <2>1, <2>2 DEF Owned
  <2> QED
    BY <2>3 DEF Init, Stack!StackInit
<1>2. IInv /\ [Next]_vars => [Stack!StackNext]_(Stack!stackVars)
  <2> SUFFICES ASSUME IInv, [Next]_vars PROVE [Stack!StackNext]_(Stack!stackVars)
    OBVIOUS
  <2>1. CASE Next
    BY <2>1, StackStep DEF Next, Stack!StackNext
  <2>2. CASE UNCHANGED vars
    BY <2>2 DEF vars, Stack!stackVars, Owned, Clearing, InSeq
  <2> QED
    BY <2>1, <2>2
<1> QED
  BY <1>1, <1>2, Invariant, PTL DEF Spec, ImplementsStack, Stack!StackSpec
=============================================================================
