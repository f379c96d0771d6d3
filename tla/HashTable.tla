------------------------------ MODULE HashTable ------------------------------
(***************************************************************************)
(* hashtable.c: open addressing with linear probing.  An insertion probes  *)
(* modulo the size of the table and a search modulo MAXHASHTABLELEN, which *)
(* is larger than the tables that are made.                                *)
(*                                                                         *)
(* A table is a function from the buckets with exist = 1 to what is in     *)
(* them.  The two hashes that a bucket keeps of a string stand for the     *)
(* string without its case, its name.                                      *)
(***************************************************************************)
EXTENDS Integers

CONSTANTS
  Size,             \* htable->size
  MAXHASHTABLELEN,
  Hash              \* hashstring(name, 0), modulo MAXHASHTABLELEN, of every name

ASSUME SizeAssumption ==
  Size \in Nat \ {0} /\ MAXHASHTABLELEN \in Nat /\ Size <= MAXHASHTABLELEN
ASSUME HashAssumption == \A n \in DOMAIN Hash : Hash[n] \in Nat

(* hashtable_init: no bucket exists. *)
NoItems == [b \in {} |-> ""]

AddStart(n) == Hash[n] % Size

(* A slip: the hash is the bucket. *)
AddBucketOfHash(n, i) == Hash[n] + i

AddBucket(n, i) == (AddStart(n) + i) % Size

(* hashtable_add puts the name in the i-th bucket from its start when that *)
(* is the first that does not exist.  A table that is full has none, and   *)
(* the code returns 0.                                                     *)
AddsAt(table, n, i) ==
  /\ AddBucket(n, i) \notin DOMAIN table
  /\ \A j \in 0 .. i - 1 : AddBucket(n, j) \in DOMAIN table

Put(table, b, n) ==
  [c \in DOMAIN table \cup {b} |-> IF c = b THEN n ELSE table[c]]

(* A slip: a search starts modulo its own bound. *)
StartOfBound(n) == Hash[n] % MAXHASHTABLELEN

SearchStart(n) == Hash[n] % Size

(* The i-th bucket that hashtable_isexist reads; it may be beyond the table. *)
SearchBucket(n, i) == (SearchStart(n) + i) % MAXHASHTABLELEN

(* A bucket that does not exist and one with both hashes of n end it. *)
Ends(table, n, b) == b \in DOMAIN table => table[b] = n

(* The search for n ends with the i-th bucket. *)
EndsAt(table, n, i) ==
  /\ Ends(table, n, SearchBucket(n, i))
  /\ \A j \in 0 .. i - 1 : ~ Ends(table, n, SearchBucket(n, j))

(* It read nothing but buckets of the table. *)
InTable(n, i) == \A j \in 0 .. i : SearchBucket(n, j) < Size
===============================================================================
