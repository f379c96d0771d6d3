-------------------------------- MODULE Dict --------------------------------
(***************************************************************************)
(* The dictionary of dict.c, as far as the server uses it: dict_create,    *)
(* dict_add and dict_find.  Entries are chained in the buckets of a table; *)
(* when the table is too full a second one is made and rehashidx says so,  *)
(* but nothing calls the rehash step that would move the entries.          *)
(*                                                                         *)
(* A key is a model value.  All that is used of its hash is Slot[t][k],    *)
(* its bucket in table t: the hash masked with the size of the table less  *)
(* one.  Two names that differ in the case of a letter are two keys with   *)
(* one hash.  The lock of the dictionary is always free when one of its    *)
(* functions takes it: all calls are made by the thread that starts the    *)
(* server.                                                                 *)
(***************************************************************************)
EXTENDS Integers, Sequences, FiniteSetsExt

CONSTANTS
  Key,      \* the names
  Index,    \* the buckets
  Slot,     \* Slot[t][k]: the bucket of key k in ht[t]
  HtSize,   \* DICT_HT_SIZE
  Ratio     \* DICT_RESIZE_RATIO

ASSUME DictAssumption ==
  /\ Slot \in [{0, 1} -> [Key -> Index]]
  /\ HtSize \in Nat \ {0} /\ Ratio \in Nat

VARIABLES
  table,     \* table[t][i]: the entries of bucket i of ht[t], in their order
  used,      \* used[t]: the number of entries of ht[t]
  made,      \* ht[0].size is not 0
  rehashing, \* rehashidx is not -1: ht[1] exists
  readers    \* read locks that were not given back

dictVars == <<table, used, made, rehashing, readers>>

Entry == [key : Key, val : Nat]

(* dict_create *)
DictInit ==
  /\ table = [t \in {0, 1} |-> [i \in Index |-> <<>>]]
  /\ used = [t \in {0, 1} |-> 0]
  /\ made = FALSE /\ rehashing = FALSE
  /\ readers = 0

(* _dict_expand_if_needed, which makes ht[0] first and then ht[1].  The new *)
(* size is never below what is used, so dict_expand does not refuse.        *)
Full == used[0] >= HtSize /\ used[0] \div HtSize > Ratio
NewRehashing == rehashing \/ (made /\ Full)

Tables(resizing) == IF resizing THEN {0, 1} ELSE {0}

Keys(entries) == {entries[n].key : n \in 1 .. Len(entries)}

(* A slip: the comparison the other way around, duplicates are refused. *)
RefusedIfEqual(k, tables) == \E t \in tables : k \in Keys(table[t][Slot[t][k]])

(* _dict_key_index returns -1: dict_cmp_key is 0 for equal keys, so it is a *)
(* different key in the bucket that is refused, and an equal one that is    *)
(* passed over.                                                             *)
Refused(k, tables) == \E t \in tables : Keys(table[t][Slot[t][k]]) \ {k} # {}

(* A slip: a new entry is the last of its bucket. *)
LinkLast(e, entries) == Append(entries, e)

(* A new entry is the first of its bucket. *)
Link(e, entries) == <<e>> \o entries

(* dict_add *)
Add(k, v) ==
  /\ made' = TRUE /\ rehashing' = NewRehashing
  /\ IF Refused(k, Tables(NewRehashing))
     THEN UNCHANGED <<table, used>>
     ELSE \E t \in {IF NewRehashing THEN 1 ELSE 0} :
            /\ table' = [table EXCEPT ![t][Slot[t][k]] = Link([key |-> k, val |-> v], @)]
            /\ used' = [used EXCEPT ![t] = @ + 1]
  /\ UNCHANGED readers

(* dict_find: the first entry of the key, in ht[0] before ht[1]; 0 stands   *)
(* for NULL.                                                                *)
Positions(t, k) ==
  {n \in 1 .. Len(table[t][Slot[t][k]]) : table[t][Slot[t][k]][n].key = k}
FirstIn(t, k) == table[t][Slot[t][k]][Min(Positions(t, k))].val

Find(k) ==
  IF Positions(0, k) # {} THEN FirstIn(0, k)
  ELSE IF rehashing /\ Positions(1, k) # {} THEN FirstIn(1, k)
  ELSE 0

(* A dictionary without a table is left with the read lock taken. *)
FindLock == readers' = IF made THEN readers ELSE readers + 1
=============================================================================
