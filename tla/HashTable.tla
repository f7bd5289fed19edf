----------------------------- MODULE HashTable ------------------------------
(***************************************************************************)
(* The hash table, src/src/hash_table.c, as operators on a record: buckets *)
(* with a list of entries each, and num_keys.  NULL stands for the NULL    *)
(* value, which put takes as a removal.                                    *)
(***************************************************************************)
EXTENDS Integers, SequencesExt

CONSTANTS
    NumBuckets,     \* NUM_BUCKETS, 3 in the code
    Hash,           \* on_hash of each key, or the key itself
    NULL

ASSUME NumBucketsAssumption == NumBuckets \in Nat \ {0}
ASSUME HashAssumption == \A key \in DOMAIN Hash : Hash[key] \in Int

\* ht_new, and what ht_clear leaves.
NewTable == [buckets |-> [b \in 0..(NumBuckets - 1) |-> <<>>], numKeys |-> 0]

Bucket(key) == Hash[key] % NumBuckets

\* ht_find: the places of key in its bucket, one or none.
Places(ht, key) ==
    {i \in DOMAIN ht.buckets[Bucket(key)] :
        /\ ht.buckets[Bucket(key)][i].key = key
        /\ \A j \in 1..(i - 1) : ht.buckets[Bucket(key)][j].key # key}

Has(ht, key) == Places(ht, key) # {}
Place(ht, key) == CHOOSE i \in Places(ht, key) : TRUE

\* ht_get_value: the value, or NULL.
Value(ht, key) == IF Has(ht, key) THEN ht.buckets[Bucket(key)][Place(ht, key)].value ELSE NULL

\* ht_get moves the entry to the front of its bucket.
AfterGet(ht, key) ==
    IF ~Has(ht, key) THEN ht
    ELSE LET list == ht.buckets[Bucket(key)]
             i == Place(ht, key) IN
         [ht EXCEPT !.buckets[Bucket(key)] = <<list[i]>> \o RemoveAt(list, i)]

\* (slip) the whole rest of the bucket goes with the entry.
RemoveKeyAndRest(ht, key) ==
    IF ~Has(ht, key) THEN ht
    ELSE [ht EXCEPT !.buckets[Bucket(key)] = SubSeq(@, 1, Place(ht, key) - 1),
                    !.numKeys = @ - 1]

\* ht_remove; the value that it returns is Value.
RemoveKey(ht, key) ==
    IF ~Has(ht, key) THEN ht
    ELSE [ht EXCEPT !.buckets[Bucket(key)] = RemoveAt(@, Place(ht, key)),
                    !.numKeys = @ - 1]

\* ht_put.
Put(ht, key, value) ==
    IF value = NULL THEN RemoveKey(ht, key)
    ELSE IF Has(ht, key)
    THEN [ht EXCEPT !.buckets[Bucket(key)] = [@ EXCEPT ![Place(ht, key)].value = value]]
    ELSE [ht EXCEPT !.buckets[Bucket(key)] = <<[key |-> key, value |-> value]>> \o @,
                    !.numKeys = @ + 1]

\* The entries that ht_get_all goes through.
Entries(ht) == UNION {{<<b, i>> : i \in DOMAIN ht.buckets[b]} : b \in DOMAIN ht.buckets}

Keys(ht) == {ht.buckets[e[1]][e[2]].key : e \in Entries(ht)}

\* No key twice, each in its bucket, and num_keys right: ht_get_all allocates an
\* array of num_keys and fills it without looking.
WellFormed(ht) ==
    /\ Cardinality(Entries(ht)) = Cardinality(Keys(ht))
    /\ \A e \in Entries(ht) : Bucket(ht.buckets[e[1]][e[2]].key) = e[1]
    /\ ht.numKeys = Cardinality(Entries(ht))
=============================================================================
