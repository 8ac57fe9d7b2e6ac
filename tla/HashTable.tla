----------------------------- MODULE HashTable -----------------------------
(***************************************************************************)
(* HashTable<K, V> of backend/include/hashtable.hpp with integer keys: a   *)
(* vector of buckets, each a list of entries under a mutex of its own.     *)
(* insert() and find() hold one mutex from start to end, so each is a      *)
(* single step; getAll() takes the mutexes one after the other.            *)
(***************************************************************************)
EXTENDS Integers, Sequences, SequencesExt

CONSTANT BucketCount

ASSUME BucketsAssumption == BucketCount \in Nat \ {0}

Buckets == 0..(BucketCount - 1)

EmptyTable == [b \in Buckets |-> <<>>]

(* std::hash<int> is the identity. *)
bucketIndex(key) == key % BucketCount

Position(bucket, key) == {i \in DOMAIN bucket : bucket[i].key = key}

(* insert() overwrites the entry of a key that is there. *)
insert(table, key, value) ==
    LET b == bucketIndex(key)
        at == Position(table[b], key)
        entry == [key |-> key, value |-> value]
    IN  [table EXCEPT ![b] = IF at = {} THEN Append(@, entry)
                             ELSE [i \in DOMAIN @ |-> IF i \in at THEN entry ELSE @[i]]]

(* find(): the value in a set, or nothing. *)
find(table, key) ==
    LET bucket == table[bucketIndex(key)]
        at == Position(bucket, key)
    IN  IF at = {} THEN {} ELSE {bucket[CHOOSE i \in at : \A j \in at : i <= j].value}

(* getAll() of a table nobody else uses. *)
getAll(table) ==
    FoldLeft(LAMBDA all, bucket : all \o bucket, <<>>,
             [i \in 1..BucketCount |-> table[i - 1]])

Entries(table) == UNION {ToSet(table[b]) : b \in Buckets}

Keys(table) == {entry.key : entry \in Entries(table)}
=============================================================================
