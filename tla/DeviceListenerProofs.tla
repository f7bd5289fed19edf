------------------------- MODULE DeviceListenerProofs -------------------------
(***************************************************************************)
(* Proofs about the connection to usbmuxd.  First what the operators of    *)
(* HashTable do to the content of a table, for any keys and any hash; then *)
(* the inductive invariant of DeviceListener, and what follows from it.    *)
(***************************************************************************)
EXTENDS DeviceListener, CharBufferProofs, FiniteSetTheorems

-----------------------------------------------------------------------------
(* The content of a table.                                                   *)

\* The entries of tables with the given keys and values, and the tables.
Records(K, V) == [key : K, value : V]
Tables(K, V) == [buckets : [0..(NumBuckets - 1) -> Seq(Records(K, V))], numKeys : Int]

\* The entries of a bucket; and that no two of them have the same key.
Pairs(list) == {list[i] : i \in 1..Len(list)}
Once(list) == \A i, j \in 1..Len(list) : list[i].key = list[j].key => i = j

\* The entries of a table.
Content(ht) == UNION {Pairs(ht.buckets[b]) : b \in 0..(NumBuckets - 1)}

\* Each key once, and in its bucket.
Sound(ht) ==
    \A b \in 0..(NumBuckets - 1) :
        /\ Once(ht.buckets[b])
        /\ \A i \in 1..Len(ht.buckets[b]) : Bucket(ht.buckets[b][i].key) = b

\* A key is in the table at most once, and num_keys is right.
Good(ht) == Sound(ht) /\ IsFiniteSet(Keys(ht)) /\ ht.numKeys = Cardinality(Keys(ht))

-----------------------------------------------------------------------------
(* Lists.                                                                    *)

\* The elements of a list without its i-th.
LEMMA RemoveAtFacts ==
    ASSUME NEW T, NEW s \in Seq(T), NEW i \in 1..Len(s)
    PROVE  /\ RemoveAt(s, i) \in Seq(T)
           /\ Len(RemoveAt(s, i)) = Len(s) - 1
           /\ \A j \in 1..(Len(s) - 1) : RemoveAt(s, i)[j] = IF j < i THEN s[j] ELSE s[j + 1]
<1> DEFINE front == SubSeq(s, 1, i - 1)
           back == SubSeq(s, i + 1, Len(s))
<1>1. Len(s) \in Nat /\ i \in Nat /\ i >= 1 /\ i <= Len(s)
  OBVIOUS
<1>2. front \in Seq(T) /\ Len(front) = i - 1 /\ \A j \in 1..(i - 1) : front[j] = s[j]
  BY <1>1
<1>3. back \in Seq(T) /\ Len(back) = Len(s) - i /\ \A j \in 1..(Len(s) - i) : back[j] = s[i + j]
  BY <1>1
<1>4. RemoveAt(s, i) = front \o back
  BY DEF RemoveAt
<1> HIDE DEF front, back
<1>5. /\ front \o back \in Seq(T) /\ Len(front \o back) = Len(s) - 1
  <2>0. front \in Seq(T) /\ back \in Seq(T)
    BY <1>2, <1>3
  <2>1. front \o back \in Seq(T) /\ Len(front \o back) = Len(front) + Len(back)
    BY <2>0
  <2> QED
    BY <1>1, <1>2, <1>3, <2>1
<1>6. ASSUME NEW j \in 1..(Len(s) - 1)
      PROVE  (front \o back)[j] = IF j < i THEN s[j] ELSE s[j + 1]
  <2>1. CASE j < i
    BY <1>1, <1>2, <1>3, <2>1
  <2>2. CASE ~(j < i)
    <3>1. (front \o back)[j] = back[j - (i - 1)]
      BY <1>1, <1>2, <1>3, <2>2
    <3>2. j - (i - 1) \in 1..(Len(s) - i) /\ i + (j - (i - 1)) = j + 1
      BY <1>1, <2>2
    <3> QED
      BY <1>3, <2>2, <3>1, <3>2
  <2> QED
    BY <2>1, <2>2
<1> QED
  BY <1>4, <1>5, <1>6

\* Without its i-th element, a list has the other entries.
LEMMA RemoveAtPairs ==
    ASSUME NEW K, NEW V, NEW s \in Seq(Records(K, V)), NEW i \in 1..Len(s), Once(s)
    PROVE  /\ RemoveAt(s, i) \in Seq(Records(K, V)) /\ Once(RemoveAt(s, i))
           /\ Pairs(RemoveAt(s, i)) = {p \in Pairs(s) : p.key # s[i].key}
<1> DEFINE r == RemoveAt(s, i)
<1>1. /\ r \in Seq(Records(K, V)) /\ Len(r) = Len(s) - 1
      /\ \A j \in 1..(Len(s) - 1) : r[j] = IF j < i THEN s[j] ELSE s[j + 1]
  BY RemoveAtFacts
<1> HIDE DEF r
<1>2. Len(s) \in Nat /\ i \in Nat /\ i >= 1 /\ i <= Len(s)
  OBVIOUS
<1>3. Once(r)
  <2> SUFFICES ASSUME NEW j \in 1..Len(r), NEW k \in 1..Len(r), r[j].key = r[k].key
               PROVE  j = k
    BY DEF Once
  <2> DEFINE j2 == IF j < i THEN j ELSE j + 1
             k2 == IF k < i THEN k ELSE k + 1
  <2>1. j2 \in 1..Len(s) /\ k2 \in 1..Len(s) /\ r[j] = s[j2] /\ r[k] = s[k2]
    BY <1>1, <1>2
  <2>2. j2 = k2
    BY <2>1 DEF Once
  <2> QED
    BY <1>1, <1>2, <2>2
<1>4. ASSUME NEW p \in Pairs(r) PROVE p \in Pairs(s) /\ p.key # s[i].key
  <2>1. PICK j \in 1..Len(r) : p = r[j]
    BY DEF Pairs
  <2> DEFINE j2 == IF j < i THEN j ELSE j + 1
  <2>2. j2 \in 1..Len(s) /\ p = s[j2] /\ j2 # i
    BY <1>1, <1>2, <2>1
  <2> QED
    BY <2>2 DEF Pairs, Once
<1>5. ASSUME NEW p \in Pairs(s), p.key # s[i].key PROVE p \in Pairs(r)
  <2>1. PICK j \in 1..Len(s) : p = s[j]
    BY DEF Pairs
  <2> DEFINE j2 == IF j < i THEN j ELSE j - 1
  <2>2. j2 \in 1..Len(r) /\ p = r[j2]
    BY <1>1, <1>2, <1>5, <2>1
  <2> QED
    BY <2>2 DEF Pairs
<1> QED
  BY <1>1, <1>3, <1>4, <1>5 DEF r

\* A list with a new key in front has its entry besides.
LEMMA FrontPairs ==
    ASSUME NEW K, NEW V, NEW s \in Seq(Records(K, V)), Once(s), NEW e \in Records(K, V),
           \A p \in Pairs(s) : p.key # e.key
    PROVE  /\ <<e>> \o s \in Seq(Records(K, V)) /\ Once(<<e>> \o s)
           /\ Pairs(<<e>> \o s) = Pairs(s) \cup {e}
<1> DEFINE r == <<e>> \o s
<1>1. /\ r \in Seq(Records(K, V)) /\ Len(r) = Len(s) + 1 /\ r[1] = e
      /\ \A j \in 1..Len(s) : r[j + 1] = s[j]
  OBVIOUS
<1> HIDE DEF r
<1>2. Len(s) \in Nat
  OBVIOUS
<1>3. \A j \in 1..Len(r) : j = 1 \/ (j - 1 \in 1..Len(s) /\ r[j] = s[j - 1] /\ s[j - 1] \in Pairs(s))
  <2> TAKE j \in 1..Len(r)
  <2> SUFFICES ASSUME j # 1 PROVE j - 1 \in 1..Len(s) /\ r[j] = s[j - 1] /\ s[j - 1] \in Pairs(s)
    OBVIOUS
  <2>1. j - 1 \in 1..Len(s) /\ (j - 1) + 1 = j
    BY <1>1, <1>2
  <2> QED
    BY <1>1, <2>1 DEF Pairs
<1>4. Once(r)
  <2> SUFFICES ASSUME NEW j \in 1..Len(r), NEW k \in 1..Len(r), r[j].key = r[k].key
               PROVE  j = k
    BY DEF Once
  <2>1. CASE j = 1 \/ k = 1
    BY <1>1, <1>3, <2>1
  <2>2. CASE j # 1 /\ k # 1
    <3>1. j - 1 \in 1..Len(s) /\ k - 1 \in 1..Len(s) /\ s[j - 1].key = s[k - 1].key
      BY <1>3, <2>2
    <3>2. j - 1 = k - 1
      BY <3>1 DEF Once
    <3> QED
      BY <1>1, <1>2, <3>2
  <2> QED
    BY <2>1, <2>2
<1>5. ASSUME NEW p \in Pairs(r) PROVE p \in Pairs(s) \cup {e}
  <2>1. PICK j \in 1..Len(r) : p = r[j]
    BY DEF Pairs
  <2> QED
    BY <1>1, <1>3, <2>1
<1>6. ASSUME NEW p \in Pairs(s) \cup {e} PROVE p \in Pairs(r)
  <2>1. CASE p = e
    <3>1. 1 \in 1..Len(r)
      BY <1>1, <1>2
    <3> QED
      BY <1>1, <2>1, <3>1 DEF Pairs
  <2>2. CASE p \in Pairs(s)
    <3>1. PICK j \in 1..Len(s) : p = s[j]
      BY <2>2 DEF Pairs
    <3>2. j + 1 \in 1..Len(r) /\ p = r[j + 1]
      BY <1>1, <1>2, <3>1
    <3> QED
      BY <3>2 DEF Pairs
  <2> QED
    BY <2>1, <2>2
<1> QED
  BY <1>1, <1>4, <1>5, <1>6 DEF r

\* With another entry for the key of its i-th, a list has that entry instead.
LEMMA EntryPairs ==
    ASSUME NEW K, NEW V, NEW s \in Seq(Records(K, V)), NEW i \in 1..Len(s), Once(s),
           NEW e \in Records(K, V), e.key = s[i].key,
           NEW r \in Seq(Records(K, V)), Len(r) = Len(s),
           \A j \in 1..Len(s) : r[j] = IF j = i THEN e ELSE s[j]
    PROVE  Once(r) /\ Pairs(r) = {p \in Pairs(s) : p.key # s[i].key} \cup {e}
<1>5. \A j \in 1..Len(s) : r[j].key = s[j].key
  OBVIOUS
<1>6. Once(r)
  BY <1>5 DEF Once
<1>7. ASSUME NEW p \in Pairs(r) PROVE p \in {q \in Pairs(s) : q.key # s[i].key} \cup {e}
  <2>1. PICK j \in 1..Len(s) : p = r[j]
    BY DEF Pairs
  <2> QED
    BY <2>1 DEF Pairs, Once
<1>8. ASSUME NEW p \in {q \in Pairs(s) : q.key # s[i].key} \cup {e} PROVE p \in Pairs(r)
  <2>1. CASE p = e
    BY <2>1 DEF Pairs
  <2>2. CASE p \in Pairs(s) /\ p.key # s[i].key
    <3>1. PICK j \in 1..Len(s) : p = s[j]
      BY <2>2 DEF Pairs
    <3> QED
      BY <2>2, <3>1 DEF Pairs
  <2> QED
    BY <2>1, <2>2
<1> QED
  BY <1>6, <1>7, <1>8

-----------------------------------------------------------------------------
(* Tables.                                                                   *)

\* The fields of a table, with the names of its parts.
LEMMA TableFacts ==
    ASSUME NEW K, NEW V, NEW ht \in Tables(K, V)
    PROVE  /\ DOMAIN ht.buckets = 0..(NumBuckets - 1) /\ ht.numKeys \in Int
           /\ \A b \in 0..(NumBuckets - 1) : ht.buckets[b] \in Seq(Records(K, V))
           /\ \A p \in Content(ht) : p \in Records(K, V) /\ p.key \in K /\ p.value \in V
<1>1. /\ DOMAIN ht.buckets = 0..(NumBuckets - 1) /\ ht.numKeys \in Int
      /\ \A b \in 0..(NumBuckets - 1) : ht.buckets[b] \in Seq(Records(K, V))
  BY DEF Tables
<1>2. ASSUME NEW p \in Content(ht) PROVE p \in Records(K, V)
  BY <1>1 DEF Content, Pairs
<1> QED
  BY <1>1, <1>2 DEF Records

\* A key that has a hash has a bucket.
LEMMA BucketFacts ==
    ASSUME NEW key \in DOMAIN Hash
    PROVE  Bucket(key) \in 0..(NumBuckets - 1)
BY NumBucketsAssumption, HashAssumption DEF Bucket

\* ht_get_all goes through the content.
LEMMA KeysOfContent ==
    ASSUME NEW K, NEW V, NEW ht \in Tables(K, V)
    PROVE  Keys(ht) = {p.key : p \in Content(ht)}
<1>1. DOMAIN ht.buckets = 0..(NumBuckets - 1)
  BY TableFacts
<1>2. \A b \in 0..(NumBuckets - 1) : DOMAIN ht.buckets[b] = 1..Len(ht.buckets[b])
  BY TableFacts
<1>3. ASSUME NEW e \in Entries(ht) PROVE ht.buckets[e[1]][e[2]] \in Content(ht)
  <2>1. PICK b \in 0..(NumBuckets - 1) : e \in {<<b, i>> : i \in DOMAIN ht.buckets[b]}
    BY <1>1 DEF Entries
  <2>2. PICK i \in 1..Len(ht.buckets[b]) : e = <<b, i>>
    BY <1>2, <2>1
  <2> QED
    BY <2>2 DEF Content, Pairs
<1>4. ASSUME NEW p \in Content(ht) PROVE \E e \in Entries(ht) : p = ht.buckets[e[1]][e[2]]
  <2>1. PICK b \in 0..(NumBuckets - 1) : p \in Pairs(ht.buckets[b])
    BY DEF Content
  <2>2. PICK i \in 1..Len(ht.buckets[b]) : p = ht.buckets[b][i]
    BY <2>1 DEF Pairs
  <2>3. <<b, i>> \in Entries(ht)
    BY <1>1, <1>2 DEF Entries
  <2> QED
    BY <2>2, <2>3
<1> QED
  BY <1>3, <1>4 DEF Keys

\* An entry is in the bucket of its key, and a key has one entry.
LEMMA ContentFacts ==
    ASSUME NEW K, NEW V, NEW ht \in Tables(K, V), Sound(ht)
    PROVE  /\ \A p \in Content(ht) : Bucket(p.key) \in 0..(NumBuckets - 1)
                                     /\ p \in Pairs(ht.buckets[Bucket(p.key)])
           /\ \A p, q \in Content(ht) : p.key = q.key => p = q
<1>1. ASSUME NEW p \in Content(ht)
      PROVE  Bucket(p.key) \in 0..(NumBuckets - 1) /\ p \in Pairs(ht.buckets[Bucket(p.key)])
  <2>1. PICK b \in 0..(NumBuckets - 1) : p \in Pairs(ht.buckets[b])
    BY DEF Content
  <2>2. PICK i \in 1..Len(ht.buckets[b]) : p = ht.buckets[b][i]
    BY <2>1 DEF Pairs
  <2>3. Bucket(p.key) = b
    BY <2>2 DEF Sound
  <2> QED
    BY <2>1, <2>3
<1>2. ASSUME NEW p \in Content(ht), NEW q \in Content(ht), p.key = q.key PROVE p = q
  <2> DEFINE list == ht.buckets[Bucket(p.key)]
  <2>1. p \in Pairs(list) /\ q \in Pairs(list) /\ Once(list)
    BY <1>1, <1>2 DEF Sound
  <2> HIDE DEF list
  <2> QED
    BY <1>2, <2>1 DEF Pairs, Once
<1> QED
  BY <1>1, <1>2

\* ht_find finds the entry of a key just if there is one.
LEMMA FindFacts ==
    ASSUME NEW K, NEW V, NEW ht \in Tables(K, V), Sound(ht), NEW key \in DOMAIN Hash
    PROVE  LET list == ht.buckets[Bucket(key)] IN
           /\ Has(ht, key) <=> \E p \in Content(ht) : p.key = key
           /\ Has(ht, key) => Place(ht, key) \in 1..Len(list) /\ list[Place(ht, key)].key = key
           /\ \A p \in Content(ht) : p.key = key => Value(ht, key) = p.value
           /\ (\A p \in Content(ht) : p.key # key) => Value(ht, key) = NULL
<1> DEFINE list == ht.buckets[Bucket(key)]
<1>1. Bucket(key) \in 0..(NumBuckets - 1)
  BY BucketFacts
<1>2. list \in Seq(Records(K, V)) /\ Once(list) /\ DOMAIN list = 1..Len(list) /\ Len(list) \in Nat
  BY <1>1, TableFacts DEF Sound
<1>3. Places(ht, key) = {i \in DOMAIN list : list[i].key = key /\ \A j \in 1..(i - 1) : list[j].key # key}
  BY DEF Places
<1>4. \A p \in Pairs(list) : p \in Content(ht)
  BY <1>1 DEF Content
<1> HIDE DEF list
<1>5. ASSUME NEW i \in 1..Len(list), list[i].key = key
      PROVE  Places(ht, key) = {i}
  <2>1. ASSUME NEW j \in 1..(i - 1) PROVE list[j].key # key
    <3>1. j \in 1..Len(list) /\ j # i
      BY <1>2
    <3> QED
      BY <1>2, <1>5, <3>1 DEF Once
  <2>2. i \in Places(ht, key)
    BY <1>2, <1>3, <1>5, <2>1
  <2>3. ASSUME NEW j \in Places(ht, key) PROVE j = i
    BY <1>2, <1>3, <1>5 DEF Once
  <2> QED
    BY <2>2, <2>3
<1>6. ASSUME NEW p \in Content(ht), p.key = key
      PROVE  Has(ht, key) /\ Value(ht, key) = p.value
  <2>1. p \in Pairs(list)
    BY <1>6, ContentFacts DEF list
  <2>2. PICK i \in 1..Len(list) : p = list[i]
    BY <2>1 DEF Pairs
  <2>3. Places(ht, key) = {i}
    BY <1>5, <1>6, <2>2
  <2>4. Place(ht, key) = i
    BY <2>3 DEF Place
  <2> QED
    BY <2>2, <2>3, <2>4 DEF Has, Value, list
<1>7. ASSUME Has(ht, key)
      PROVE  /\ Place(ht, key) \in 1..Len(list) /\ list[Place(ht, key)].key = key
             /\ \E p \in Content(ht) : p.key = key
  <2>1. Place(ht, key) \in Places(ht, key)
    BY <1>7 DEF Has, Place
  <2>2. Place(ht, key) \in 1..Len(list) /\ list[Place(ht, key)].key = key
    BY <1>2, <1>3, <2>1
  <2>3. list[Place(ht, key)] \in Pairs(list)
    BY <2>2 DEF Pairs
  <2> QED
    BY <1>4, <2>2, <2>3
<1>8. (\A p \in Content(ht) : p.key # key) => Value(ht, key) = NULL
  BY <1>7 DEF Value
<1> QED
  BY <1>6, <1>7, <1>8 DEF list

\* A table with another list in one bucket has its entries for those of the old one.
LEMMA BucketReplaced ==
    ASSUME NEW K, NEW V, NEW ht \in Tables(K, V), Sound(ht), NEW n \in Int,
           NEW b \in 0..(NumBuckets - 1), NEW list \in Seq(Records(K, V)), Once(list),
           \A p \in Pairs(list) : Bucket(p.key) = b,
           NEW new, new = [buckets |-> [ht.buckets EXCEPT ![b] = list], numKeys |-> n]
    PROVE  /\ new \in Tables(K, V) /\ Sound(new) /\ new.numKeys = n
           /\ Content(new) = {p \in Content(ht) : Bucket(p.key) # b} \cup Pairs(list)
<1>1. \A c \in 0..(NumBuckets - 1) : ht.buckets[c] \in Seq(Records(K, V))
  BY TableFacts
<1>2. ht.buckets \in [0..(NumBuckets - 1) -> Seq(Records(K, V))]
  BY DEF Tables
<1>3. new.buckets = [ht.buckets EXCEPT ![b] = list] /\ new.numKeys = n
  OBVIOUS
<1>4. \A c \in 0..(NumBuckets - 1) : new.buckets[c] = IF c = b THEN list ELSE ht.buckets[c]
  BY <1>2, <1>3
<1>5. new.buckets \in [0..(NumBuckets - 1) -> Seq(Records(K, V))]
  BY <1>2, <1>3
<1>6. new \in Tables(K, V)
  BY <1>5 DEF Tables
<1>7. Sound(new)
  <2> SUFFICES ASSUME NEW c \in 0..(NumBuckets - 1)
               PROVE  /\ Once(new.buckets[c])
                      /\ \A i \in 1..Len(new.buckets[c]) : Bucket(new.buckets[c][i].key) = c
    BY DEF Sound
  <2>1. CASE c = b
    BY <1>4, <2>1 DEF Pairs
  <2>2. CASE c # b
    BY <1>4, <2>2 DEF Sound
  <2> QED
    BY <2>1, <2>2
<1>8. ASSUME NEW p \in Content(new)
      PROVE  p \in {q \in Content(ht) : Bucket(q.key) # b} \cup Pairs(list)
  <2>1. PICK c \in 0..(NumBuckets - 1) : p \in Pairs(new.buckets[c])
    BY DEF Content
  <2>2. CASE c = b
    BY <1>4, <2>1, <2>2
  <2>3. CASE c # b
    <3>1. p \in Pairs(ht.buckets[c])
      BY <1>4, <2>1, <2>3
    <3>2. p \in Content(ht)
      BY <3>1 DEF Content
    <3>3. Bucket(p.key) = c
      BY <3>1 DEF Pairs, Sound
    <3> QED
      BY <2>3, <3>2, <3>3
  <2> QED
    BY <2>2, <2>3
<1>9. ASSUME NEW p \in {q \in Content(ht) : Bucket(q.key) # b} \cup Pairs(list)
      PROVE  p \in Content(new)
  <2>1. CASE p \in Pairs(list)
    <3>1. p \in Pairs(new.buckets[b])
      BY <1>4, <2>1
    <3> QED
      BY <3>1 DEF Content
  <2>2. CASE p \in Content(ht) /\ Bucket(p.key) # b
    <3>1. /\ Bucket(p.key) \in 0..(NumBuckets - 1) /\ p \in Pairs(ht.buckets[Bucket(p.key)])
      BY <2>2, ContentFacts
    <3>2. p \in Pairs(new.buckets[Bucket(p.key)])
      BY <1>4, <2>2, <3>1
    <3> QED
      BY <3>1, <3>2 DEF Content
  <2> QED
    BY <2>1, <2>2
<1> QED
  BY <1>3, <1>6, <1>7, <1>8, <1>9

-----------------------------------------------------------------------------
(* The operations.                                                           *)

\* Of the entries in a bucket, those with other keys, and the ones in other buckets,
\* are the entries with other keys.
LEMMA OtherKeys ==
    ASSUME NEW K, NEW V, NEW ht \in Tables(K, V), Sound(ht), NEW key \in DOMAIN Hash
    PROVE  {p \in Content(ht) : Bucket(p.key) # Bucket(key)}
             \cup {p \in Pairs(ht.buckets[Bucket(key)]) : p.key # key}
           = {p \in Content(ht) : p.key # key}
<1>1. Bucket(key) \in 0..(NumBuckets - 1)
  BY BucketFacts
<1>2. \A p \in Pairs(ht.buckets[Bucket(key)]) : p \in Content(ht)
  BY <1>1 DEF Content
<1>3. \A p \in Content(ht) : Bucket(p.key) = Bucket(key) => p \in Pairs(ht.buckets[Bucket(key)])
  BY ContentFacts
<1> QED
  BY <1>2, <1>3

\* The entries of a bucket are in it.
LEMMA InBucket ==
    ASSUME NEW K, NEW V, NEW ht \in Tables(K, V), Sound(ht), NEW b \in 0..(NumBuckets - 1)
    PROVE  \A p \in Pairs(ht.buckets[b]) : Bucket(p.key) = b
BY DEF Pairs, Sound

\* ht_get moves an entry and changes nothing else.
LEMMA AfterGetContent ==
    ASSUME NEW K, NEW V, NEW ht \in Tables(K, V), Sound(ht), NEW key \in DOMAIN Hash
    PROVE  /\ AfterGet(ht, key) \in Tables(K, V) /\ Sound(AfterGet(ht, key))
           /\ AfterGet(ht, key).numKeys = ht.numKeys
           /\ Content(AfterGet(ht, key)) = Content(ht)
<1>1. CASE ~Has(ht, key)
  BY <1>1 DEF AfterGet
<1>2. CASE Has(ht, key)
  <2> DEFINE b == Bucket(key)
             list == ht.buckets[b]
             i == Place(ht, key)
             rest == RemoveAt(list, i)
             e == list[i]
             moved == <<e>> \o rest
             n == ht.numKeys
  <2>1. b \in 0..(NumBuckets - 1) /\ n \in Int
    BY BucketFacts, TableFacts
  <2>2. list \in Seq(Records(K, V)) /\ Once(list)
    BY <2>1, TableFacts DEF Sound
  <2>3. i \in 1..Len(list) /\ e.key = key
    BY <1>2, FindFacts
  <2>4. AfterGet(ht, key) = [buckets |-> [ht.buckets EXCEPT ![b] = moved], numKeys |-> n]
    BY <1>2 DEF AfterGet, Tables
  <2>5. \A p \in Pairs(list) : Bucket(p.key) = b
    BY <2>1, InBucket
  <2>6. {p \in Content(ht) : Bucket(p.key) # b} \cup {p \in Pairs(list) : p.key # key}
        = {p \in Content(ht) : p.key # key}
    BY OtherKeys
  <2>7. \A p \in Pairs(list) : p \in Content(ht)
    BY <2>1 DEF Content
  <2> HIDE DEF list, i, b, n
  <2>8. e \in Records(K, V) /\ e \in Pairs(list)
    BY <2>2, <2>3 DEF Pairs
  <2>9. /\ rest \in Seq(Records(K, V)) /\ Once(rest)
        /\ Pairs(rest) = {p \in Pairs(list) : p.key # e.key}
    BY <2>2, <2>3, RemoveAtPairs
  <2> HIDE DEF rest, e
  <2>10. /\ moved \in Seq(Records(K, V)) /\ Once(moved)
         /\ Pairs(moved) = Pairs(rest) \cup {e}
    BY <2>8, <2>9, FrontPairs
  <2> HIDE DEF moved
  <2>11. \A p \in Pairs(moved) : Bucket(p.key) = b
    BY <2>5, <2>8, <2>9, <2>10
  <2>12. PICK new : new = [buckets |-> [ht.buckets EXCEPT ![b] = moved], numKeys |-> n]
    OBVIOUS
  <2>13. /\ new \in Tables(K, V) /\ Sound(new) /\ new.numKeys = n
         /\ Content(new) = {p \in Content(ht) : Bucket(p.key) # b} \cup Pairs(moved)
    BY <2>1, <2>10, <2>11, <2>12, BucketReplaced
  <2>14. \A p \in Content(ht) : p.key = key => p = e
    BY <2>3, <2>7, <2>8, ContentFacts
  <2>15. Content(new) = Content(ht)
    BY <2>3, <2>6, <2>7, <2>8, <2>9, <2>10, <2>13, <2>14
  <2> QED
    BY <2>4, <2>12, <2>13, <2>15 DEF n
<1> QED
  BY <1>1, <1>2

\* ht_remove takes out the entry of the key.
LEMMA RemoveKeyContent ==
    ASSUME NEW K, NEW V, NEW ht \in Tables(K, V), Sound(ht), NEW key \in DOMAIN Hash
    PROVE  /\ RemoveKey(ht, key) \in Tables(K, V) /\ Sound(RemoveKey(ht, key))
           /\ RemoveKey(ht, key).numKeys = ht.numKeys - (IF Has(ht, key) THEN 1 ELSE 0)
           /\ Content(RemoveKey(ht, key)) = {p \in Content(ht) : p.key # key}
<1>1. CASE ~Has(ht, key)
  <2>1. \A p \in Content(ht) : p.key # key
    BY <1>1, FindFacts
  <2> QED
    BY <1>1, <2>1, TableFacts DEF RemoveKey
<1>2. CASE Has(ht, key)
  <2> DEFINE b == Bucket(key)
             list == ht.buckets[b]
             i == Place(ht, key)
             rest == RemoveAt(list, i)
             n == ht.numKeys - 1
  <2>0. n \in Int
    BY TableFacts
  <2>1. b \in 0..(NumBuckets - 1)
    BY BucketFacts
  <2>2. list \in Seq(Records(K, V)) /\ Once(list)
    BY <2>1, TableFacts DEF Sound
  <2>3. i \in 1..Len(list) /\ list[i].key = key
    BY <1>2, FindFacts
  <2>4. RemoveKey(ht, key) = [buckets |-> [ht.buckets EXCEPT ![b] = rest], numKeys |-> n]
    BY <1>2 DEF RemoveKey, Tables
  <2>5. \A p \in Pairs(list) : Bucket(p.key) = b
    BY <2>1, InBucket
  <2>6. {p \in Content(ht) : Bucket(p.key) # b} \cup {p \in Pairs(list) : p.key # key}
        = {p \in Content(ht) : p.key # key}
    BY OtherKeys
  <2> HIDE DEF list, i, b
  <2>7. /\ rest \in Seq(Records(K, V)) /\ Once(rest)
        /\ Pairs(rest) = {p \in Pairs(list) : p.key # list[i].key}
    BY <2>2, <2>3, RemoveAtPairs
  <2> HIDE DEF rest, n
  <2>8. \A p \in Pairs(rest) : Bucket(p.key) = b
    BY <2>5, <2>7
  <2>9. PICK new : new = [buckets |-> [ht.buckets EXCEPT ![b] = rest], numKeys |-> n]
    OBVIOUS
  <2>10. /\ new \in Tables(K, V) /\ Sound(new) /\ new.numKeys = n
         /\ Content(new) = {p \in Content(ht) : Bucket(p.key) # b} \cup Pairs(rest)
    BY <2>0, <2>1, <2>7, <2>8, <2>9, BucketReplaced
  <2>11. Content(new) = {p \in Content(ht) : p.key # key}
    BY <2>3, <2>6, <2>7, <2>10
  <2> QED
    BY <1>2, <2>4, <2>9, <2>10, <2>11 DEF n
<1> QED
  BY <1>1, <1>2

\* ht_put of a value: the key has that value, and the others have theirs.
LEMMA PutContent ==
    ASSUME NEW K, NEW V, NEW ht \in Tables(K, V), Sound(ht), NEW key \in K, key \in DOMAIN Hash,
           NEW v \in V, v # NULL
    PROVE  /\ Put(ht, key, v) \in Tables(K, V) /\ Sound(Put(ht, key, v))
           /\ Put(ht, key, v).numKeys = ht.numKeys + (IF Has(ht, key) THEN 0 ELSE 1)
           /\ Content(Put(ht, key, v)) =
                {p \in Content(ht) : p.key # key} \cup {[key |-> key, value |-> v]}
<1> DEFINE b == Bucket(key)
           list == ht.buckets[b]
           i == Place(ht, key)
           e == [key |-> key, value |-> v]
<1>1. b \in 0..(NumBuckets - 1) /\ ht.numKeys \in Int
  BY BucketFacts, TableFacts
<1>2. list \in Seq(Records(K, V)) /\ Once(list)
  BY <1>1, TableFacts DEF Sound
<1>3. \A p \in Pairs(list) : Bucket(p.key) = b /\ p \in Content(ht)
  BY <1>1, InBucket DEF Content
<1>4. {p \in Content(ht) : Bucket(p.key) # b} \cup {p \in Pairs(list) : p.key # key}
        = {p \in Content(ht) : p.key # key}
  BY OtherKeys
<1>5. e \in Records(K, V) /\ e.key = key
  BY DEF Records
<1>6. Bucket(e.key) = b
  BY <1>5
<1>7. CASE Has(ht, key)
  <2> DEFINE n == ht.numKeys
  <2>0. PICK s : s = [list EXCEPT ![i].value = v]
    OBVIOUS
  <2>1. i \in 1..Len(list) /\ list[i].key = key
    BY <1>7, FindFacts
  <2>2. Put(ht, key, v) = [buckets |-> [ht.buckets EXCEPT ![b] = s], numKeys |-> n]
    BY <1>7, <2>0 DEF Put, Tables
  <2> HIDE DEF list, i, b
  <2>3. list[i] \in Records(K, V)
    BY <1>2, <2>1
  <2>4. [list[i] EXCEPT !.value = v] = e
    BY <2>1, <2>3 DEF Records
  <2>5. s = [list EXCEPT ![i] = e]
    BY <2>0, <2>4
  <2> HIDE DEF e
  <2>6. /\ s \in Seq(Records(K, V)) /\ Len(s) = Len(list)
        /\ \A j \in 1..Len(list) : s[j] = IF j = i THEN e ELSE list[j]
    BY <1>2, <1>5, <2>1, <2>5
  <2>7. Once(s) /\ Pairs(s) = {p \in Pairs(list) : p.key # key} \cup {e}
    BY <1>2, <1>5, <2>1, <2>6, EntryPairs
  <2> HIDE DEF n
  <2>8. \A p \in Pairs(s) : Bucket(p.key) = b
    BY <1>3, <1>6, <2>7
  <2>9. PICK new : new = [buckets |-> [ht.buckets EXCEPT ![b] = s], numKeys |-> n]
    OBVIOUS
  <2>10. n \in Int
    BY <1>1 DEF n
  <2>11. /\ new \in Tables(K, V) /\ Sound(new) /\ new.numKeys = n
        /\ Content(new) = {p \in Content(ht) : Bucket(p.key) # b} \cup Pairs(s)
    BY <1>1, <2>6, <2>7, <2>8, <2>9, <2>10, BucketReplaced
  <2>12. Content(new) = {p \in Content(ht) : p.key # key} \cup {e}
    BY <1>4, <2>7, <2>11
  <2> QED
    BY <1>1, <1>7, <2>2, <2>9, <2>11, <2>12 DEF n, e
<1>8. CASE ~Has(ht, key)
  <2> DEFINE s == <<e>> \o list
             n == ht.numKeys + 1
  <2>1. \A p \in Content(ht) : p.key # key
    BY <1>8, FindFacts
  <2>2. Put(ht, key, v) = [buckets |-> [ht.buckets EXCEPT ![b] = s], numKeys |-> n]
    BY <1>8 DEF Put, Tables
  <2> HIDE DEF list, b, e
  <2>3. /\ s \in Seq(Records(K, V)) /\ Once(s) /\ Pairs(s) = Pairs(list) \cup {e}
    BY <1>2, <1>3, <1>5, <2>1, FrontPairs
  <2>4. n \in Int
    BY <1>1
  <2> HIDE DEF s, n
  <2>5. \A p \in Pairs(s) : Bucket(p.key) = b
    BY <1>3, <1>6, <2>3
  <2>6. PICK new : new = [buckets |-> [ht.buckets EXCEPT ![b] = s], numKeys |-> n]
    OBVIOUS
  <2>7. /\ new \in Tables(K, V) /\ Sound(new) /\ new.numKeys = n
        /\ Content(new) = {p \in Content(ht) : Bucket(p.key) # b} \cup Pairs(s)
    BY <1>1, <2>3, <2>4, <2>5, <2>6, BucketReplaced
  <2>8. Content(new) = {p \in Content(ht) : p.key # key} \cup {e}
    BY <1>3, <1>4, <2>1, <2>3, <2>7
  <2> QED
    BY <1>8, <2>2, <2>6, <2>7, <2>8 DEF n, e
<1> QED
  BY <1>7, <1>8

-----------------------------------------------------------------------------
(* The promise of the table: it is a function from its keys, and WellFormed. *)

\* A new table is empty.
LEMMA NewTableContent ==
    ASSUME NEW K, NEW V
    PROVE  /\ NewTable \in Tables(K, V) /\ Sound(NewTable) /\ Content(NewTable) = {}
           /\ NewTable.numKeys = 0
<1>1. \A b \in 0..(NumBuckets - 1) : NewTable.buckets[b] = <<>>
  BY DEF NewTable
<1>2. NewTable \in Tables(K, V)
  BY DEF NewTable, Tables
<1> QED
  BY <1>1, <1>2 DEF Sound, Once, Content, Pairs, NewTable

\* The keys after each operation.
LEMMA KeysAfter ==
    ASSUME NEW K, NEW V, NEW ht \in Tables(K, V), Sound(ht), NEW key \in K, key \in DOMAIN Hash
    PROVE  /\ Keys(AfterGet(ht, key)) = Keys(ht)
           /\ Keys(RemoveKey(ht, key)) = Keys(ht) \ {key}
           /\ \A v \in V : v # NULL => Keys(Put(ht, key, v)) = Keys(ht) \cup {key}
           /\ Has(ht, key) <=> key \in Keys(ht)
<1>1. Keys(ht) = {p.key : p \in Content(ht)}
  BY KeysOfContent
<1>2. Keys(AfterGet(ht, key)) = Keys(ht)
  BY <1>1, AfterGetContent, KeysOfContent
<1>3. Keys(RemoveKey(ht, key)) = {p.key : p \in Content(RemoveKey(ht, key))}
  BY RemoveKeyContent, KeysOfContent
<1>4. Keys(RemoveKey(ht, key)) = Keys(ht) \ {key}
  BY <1>1, <1>3, RemoveKeyContent
<1>5. ASSUME NEW v \in V, v # NULL PROVE Keys(Put(ht, key, v)) = Keys(ht) \cup {key}
  <2> DEFINE e == [key |-> key, value |-> v]
  <2>1. /\ Put(ht, key, v) \in Tables(K, V)
        /\ Content(Put(ht, key, v)) = {p \in Content(ht) : p.key # key} \cup {e}
    BY <1>5, PutContent
  <2>2. Keys(Put(ht, key, v)) = {p.key : p \in {p \in Content(ht) : p.key # key} \cup {e}}
    BY <2>1, KeysOfContent
  <2>3. e.key = key
    OBVIOUS
  <2> HIDE DEF e
  <2> QED
    BY <1>1, <2>2, <2>3
<1>6. Has(ht, key) <=> key \in Keys(ht)
  BY <1>1, FindFacts
<1> QED
  BY <1>2, <1>4, <1>5, <1>6

\* A good table stays good.
THEOREM OperationsKeepGood ==
    ASSUME NEW K, NEW V, NEW ht \in Tables(K, V), Good(ht), NEW key \in K, key \in DOMAIN Hash
    PROVE  /\ Good(AfterGet(ht, key))
           /\ Good(RemoveKey(ht, key))
           /\ \A v \in V : v # NULL => Good(Put(ht, key, v))
<1>1. Sound(ht) /\ IsFiniteSet(Keys(ht)) /\ ht.numKeys = Cardinality(Keys(ht))
  BY DEF Good
<1>2. Cardinality(Keys(ht)) \in Nat
  BY <1>1, FS_CardinalityType
<1>3. Good(AfterGet(ht, key))
  BY <1>1, AfterGetContent, KeysAfter DEF Good
<1>4. Good(RemoveKey(ht, key))
  <2>1. /\ IsFiniteSet(Keys(ht) \ {key})
        /\ Cardinality(Keys(ht) \ {key}) =
             IF key \in Keys(ht) THEN Cardinality(Keys(ht)) - 1 ELSE Cardinality(Keys(ht))
    BY <1>1, FS_RemoveElement
  <2>2. Sound(RemoveKey(ht, key)) /\ Keys(RemoveKey(ht, key)) = Keys(ht) \ {key}
    BY <1>1, RemoveKeyContent, KeysAfter
  <2>3. RemoveKey(ht, key).numKeys = ht.numKeys - (IF key \in Keys(ht) THEN 1 ELSE 0)
    BY <1>1, RemoveKeyContent, KeysAfter
  <2> QED
    BY <1>1, <1>2, <2>1, <2>2, <2>3 DEF Good
<1>5. ASSUME NEW v \in V, v # NULL PROVE Good(Put(ht, key, v))
  <2>1. /\ IsFiniteSet(Keys(ht) \cup {key})
        /\ Cardinality(Keys(ht) \cup {key}) =
             IF key \in Keys(ht) THEN Cardinality(Keys(ht)) ELSE Cardinality(Keys(ht)) + 1
    BY <1>1, FS_AddElement
  <2>2. Sound(Put(ht, key, v)) /\ Keys(Put(ht, key, v)) = Keys(ht) \cup {key}
    BY <1>1, <1>5, PutContent, KeysAfter
  <2>3. Put(ht, key, v).numKeys = ht.numKeys + (IF key \in Keys(ht) THEN 0 ELSE 1)
    BY <1>1, <1>5, PutContent, KeysAfter
  <2> QED
    BY <1>1, <1>2, <2>1, <2>2, <2>3 DEF Good
<1> QED
  BY <1>3, <1>4, <1>5

\* A set that is mapped one to one onto a finite set has as many elements.
LEMMA SameNumber ==
    ASSUME NEW S, NEW T, IsFiniteSet(T), NEW f, f \in Injection(S, T), f \in Surjection(S, T)
    PROVE  Cardinality(S) = Cardinality(T)
BY FS_Injection

\* A good table is well formed: as a key is found in one place, there are as many
\* entries as keys.
THEOREM GoodIsWellFormed ==
    ASSUME NEW K, NEW V, NEW ht \in Tables(K, V), Good(ht)
    PROVE  WellFormed(ht)
<1> DEFINE keyOf == [e \in Entries(ht) |-> ht.buckets[e[1]][e[2]].key]
<1>1. /\ Sound(ht) /\ IsFiniteSet(Keys(ht)) /\ ht.numKeys = Cardinality(Keys(ht))
      /\ DOMAIN ht.buckets = 0..(NumBuckets - 1)
      /\ \A b \in 0..(NumBuckets - 1) : DOMAIN ht.buckets[b] = 1..Len(ht.buckets[b])
  BY TableFacts DEF Good
<1>2. ASSUME NEW e \in Entries(ht)
      PROVE  \E b \in 0..(NumBuckets - 1) : \E i \in 1..Len(ht.buckets[b]) :
                e = <<b, i>> /\ Bucket(ht.buckets[b][i].key) = b
  <2>1. PICK b \in 0..(NumBuckets - 1) : e \in {<<b, i>> : i \in DOMAIN ht.buckets[b]}
    BY <1>1 DEF Entries
  <2>2. PICK i \in 1..Len(ht.buckets[b]) : e = <<b, i>>
    BY <1>1, <2>1
  <2> QED
    BY <1>1, <2>2 DEF Sound
<1>3. \A e \in Entries(ht) : Bucket(ht.buckets[e[1]][e[2]].key) = e[1]
  BY <1>2
<1>4. keyOf \in Surjection(Entries(ht), Keys(ht))
  BY DEF Keys, Surjection
<1>5. keyOf \in Injection(Entries(ht), Keys(ht))
  <2>1. keyOf \in [Entries(ht) -> Keys(ht)]
    BY DEF Keys
  <2>2. ASSUME NEW d \in Entries(ht), NEW e \in Entries(ht), keyOf[d] = keyOf[e] PROVE d = e
    <3>1. PICK b \in 0..(NumBuckets - 1) : \E i \in 1..Len(ht.buckets[b]) :
                d = <<b, i>> /\ Bucket(ht.buckets[b][i].key) = b
      BY <1>2
    <3>2. PICK i \in 1..Len(ht.buckets[b]) : d = <<b, i>> /\ Bucket(ht.buckets[b][i].key) = b
      BY <3>1
    <3>3. PICK c \in 0..(NumBuckets - 1) : \E j \in 1..Len(ht.buckets[c]) :
                e = <<c, j>> /\ Bucket(ht.buckets[c][j].key) = c
      BY <1>2
    <3>4. PICK j \in 1..Len(ht.buckets[c]) : e = <<c, j>> /\ Bucket(ht.buckets[c][j].key) = c
      BY <3>3
    <3>5. ht.buckets[b][i].key = ht.buckets[c][j].key
      BY <2>2, <3>2, <3>4
    <3>6. b = c
      BY <3>2, <3>4, <3>5
    <3>7. Once(ht.buckets[b])
      BY <1>1 DEF Sound
    <3>8. i = j
      BY <3>5, <3>6, <3>7 DEF Once
    <3> QED
      BY <3>2, <3>4, <3>6, <3>8
  <2> QED
    BY <2>1, <2>2 DEF Injection, IsInjective
<1> HIDE DEF keyOf
<1>6. Cardinality(Entries(ht)) = Cardinality(Keys(ht))
  BY <1>1, <1>4, <1>5, SameNumber
<1> QED
  BY <1>1, <1>3, <1>6 DEF WellFormed
-----------------------------------------------------------------------------
(* The inductive invariant.                                                  *)

\* What a port may be.
PortStates == {"open", "closed"}

\* The packets of usbmuxd lie one after the other.
StreamOK ==
    /\ sent \in Seq(Packets) /\ starts \in Seq(Nat)
    /\ Len(starts) = Len(sent) + 1 /\ starts[1] = 0
    /\ \A k \in 1..Len(sent) : starts[k + 1] = starts[k] + sent[k].size
    /\ \A i, j \in 1..Len(starts) : i < j => starts[i] < starts[j]
    /\ delivered \in Nat /\ delivered <= BytesSent
    /\ handled \in Nat /\ handled <= Len(sent)

\* What the parser has to read, now or in the next call.
Unread == IF ~alive THEN <<>> ELSE IF looping THEN Input(in) ELSE Kept(in)

\* The parser is in the middle of the next packet, with all of it that arrived, and
\* the length that it took is that packet's.
ParserOK ==
    /\ hasLength \in BOOLEAN /\ alive \in BOOLEAN /\ looping \in BOOLEAN
    /\ looping => alive
    /\ in \in Buffers(StreamBytes)
    /\ IF looping THEN Reading(in) ELSE InBounds(in)
    /\ IF hasLength THEN handled < Len(sent) /\ bodyLength = sent[handled + 1].size
       ELSE bodyLength = 0
    /\ alive => /\ starts[handled + 1] <= delivered
                /\ Unread = Span(starts[handled + 1], delivered)

TablesOK ==
    /\ table \in Tables(Nums, Ids) /\ Good(table)
    /\ iports \in Tables(Ids, PortStates) /\ Good(iports)

\* The id under which n is listed after k packets.
ListedAs(n, id, k) == \E i \in LastNews(n, k) : sent[i].kind = "attached" /\ sent[i].id = id

\* The entries of the table are what usbmuxd lists.
ListedOK ==
    alive => \A n \in Nums, id \in Ids :
                [key |-> n, value |-> id] \in Content(table) <=> ListedAs(n, id, handled)

\* A device that is attached gets a number that is no device's.
NumbersFree ==
    \A k \in 1..Len(sent) :
        sent[k].kind = "attached" => sent[k].num \notin DOMAIN ListedAfter(k - 1)

\* An open port is of a device in the table.
OpenOK ==
    alive => \A id \in Ids :
                [key |-> id, value |-> "open"] \in Content(iports) =>
                    \E n \in Nums : [key |-> n, value |-> id] \in Content(table)

IInv == StreamOK /\ ParserOK /\ TablesOK /\ ListedOK /\ NumbersFree /\ OpenOK

-----------------------------------------------------------------------------
(* The stream.                                                               *)

\* A packet of usbmuxd, by PacketsAssumption.
LEMMA SentFacts ==
    ASSUME sent \in Seq(Packets), NEW k \in 1..Len(sent)
    PROVE  /\ sent[k] \in Packets /\ sent[k].size \in Nat /\ sent[k].size >= LengthBytes
           /\ sent[k].size >= 1
           /\ sent[k].kind \in {"ack", "ignored", "fault", "attached", "detached"}
           /\ sent[k].kind \in {"attached", "detached"} => sent[k].num \in Nums
           /\ sent[k].kind = "attached" => sent[k].id \in Ids \cup {NULL}
<1>1. sent[k] \in Packets
  OBVIOUS
<1>2. LengthBytes \in Nat /\ LengthBytes >= 1
  BY SizesAssumption
<1>3. sent[k].size \in Nat /\ sent[k].size >= LengthBytes
  BY <1>1, PacketsAssumption
<1> QED
  BY <1>1, <1>2, <1>3, PacketsAssumption

\* The bounds of the packets, by StreamOK.
LEMMA StartsFacts ==
    ASSUME StreamOK
    PROVE  /\ Len(sent) \in Nat /\ Len(starts) = Len(sent) + 1
           /\ BytesSent \in Nat /\ BytesSent = starts[Len(sent) + 1]
           /\ \A k \in 1..(Len(sent) + 1) : starts[k] \in Nat /\ starts[k] <= BytesSent
           /\ starts[handled + 1] \in Nat /\ starts[handled + 1] <= BytesSent
           /\ handled + 1 \in 1..(Len(sent) + 1)
<1>1. /\ Len(sent) \in Nat /\ Len(starts) = Len(sent) + 1 /\ starts \in Seq(Nat)
      /\ handled \in Nat /\ handled <= Len(sent)
      /\ \A i, j \in 1..Len(starts) : i < j => starts[i] < starts[j]
  BY DEF StreamOK
<1>2. BytesSent = starts[Len(sent) + 1]
  BY <1>1 DEF BytesSent
<1>3. ASSUME NEW k \in 1..(Len(sent) + 1) PROVE starts[k] \in Nat
  BY <1>1
<1>4. BytesSent \in Nat
  BY <1>1, <1>2, <1>3
<1>5. ASSUME NEW k \in 1..(Len(sent) + 1) PROVE starts[k] <= BytesSent
  <2>1. CASE k = Len(sent) + 1
    BY <1>2, <1>4, <2>1
  <2>2. CASE k # Len(sent) + 1
    <3>1. k \in 1..Len(starts) /\ Len(sent) + 1 \in 1..Len(starts) /\ k < Len(sent) + 1
      BY <1>1, <2>2
    <3>2. starts[k] < starts[Len(sent) + 1]
      BY <1>1, <3>1
    <3> QED
      BY <1>2, <1>3, <1>4, <3>2
  <2> QED
    BY <2>1, <2>2
<1>6. handled + 1 \in 1..(Len(sent) + 1)
  BY <1>1
<1> QED
  BY <1>1, <1>2, <1>3, <1>4, <1>5, <1>6

\* With at least the bytes of a length to read, the packet at the input is the next
\* one that was not handled; and any part of one is of a packet that was sent.
LEMMA NextPacket ==
    ASSUME StreamOK, ParserOK, looping, Len(Input(in)) >= 1
    PROVE  /\ handled < Len(sent)
           /\ At(Input(in)) = sent[handled + 1]
<1> DEFINE s == starts[handled + 1]
<1>1. alive /\ s <= delivered /\ Input(in) = Span(s, delivered)
  BY DEF ParserOK, Unread
<1>2. /\ Len(sent) \in Nat /\ Len(starts) = Len(sent) + 1
      /\ BytesSent \in Nat /\ BytesSent = starts[Len(sent) + 1]
      /\ s \in Nat /\ s <= BytesSent /\ handled + 1 \in 1..(Len(sent) + 1)
      /\ \A k \in 1..(Len(sent) + 1) : starts[k] \in Nat
  BY StartsFacts
<1>3. delivered \in Nat /\ delivered <= BytesSent /\ handled \in Nat /\ handled <= Len(sent)
  BY DEF StreamOK
<1>4. \A i, j \in 1..Len(starts) : i < j => starts[i] < starts[j]
  BY DEF StreamOK
<1>5. DOMAIN sent = 1..Len(sent)
  BY DEF StreamOK
<1> HIDE DEF s
<1>6. Len(Input(in)) = delivered - s /\ (delivered - s >= 1 => Input(in)[1] = s + 1)
  <2>1. Len(Span(s, delivered)) = delivered - s
    BY <1>1, <1>2, <1>3, SpanFacts
  <2>2. \A i \in 1..(delivered - s) : Span(s, delivered)[i] = s + i
    BY <1>1, <1>2, <1>3, SpanFacts
  <2>3. delivered - s >= 1 => 1 \in 1..(delivered - s)
    BY <1>2, <1>3
  <2> QED
    BY <1>1, <2>1, <2>2, <2>3
<1>7. delivered - s >= 1
  BY <1>6
<1>8. handled < Len(sent)
  <2>1. SUFFICES ASSUME handled = Len(sent) PROVE FALSE
    BY <1>2, <1>3
  <2>2. s = BytesSent
    BY <1>2, <2>1 DEF s
  <2> QED
    BY <1>2, <1>3, <1>7, <2>2
<1>9. Input(in)[1] = s + 1
  BY <1>6, <1>7
<1>10. handled + 1 \in DOMAIN sent /\ starts[handled + 1] + 1 = Input(in)[1]
  BY <1>3, <1>5, <1>8, <1>9 DEF s
<1>11. ASSUME NEW k \in DOMAIN sent, starts[k] + 1 = Input(in)[1] PROVE k = handled + 1
  <2>1. k \in 1..Len(starts) /\ handled + 1 \in 1..Len(starts) /\ k \in Nat /\ handled + 1 \in Nat
    BY <1>2, <1>3, <1>5
  <2>2. starts[k] \in Nat /\ starts[handled + 1] \in Nat /\ starts[k] = starts[handled + 1]
    BY <1>2, <1>9, <1>11, <2>1 DEF s
  <2>3. ~(k < handled + 1) /\ ~(handled + 1 < k)
    BY <1>4, <2>1, <2>2
  <2> QED
    BY <2>1, <2>3
<1>12. (CHOOSE k \in DOMAIN sent : starts[k] + 1 = Input(in)[1]) = handled + 1
  BY <1>10, <1>11
<1> QED
  BY <1>8, <1>10, <1>12 DEF At

-----------------------------------------------------------------------------
(* What usbmuxd lists.                                                       *)

\* There is one last news at most.
LEMMA OneLastNews ==
    ASSUME NEW n, NEW k \in Nat, NEW i \in LastNews(n, k), NEW j \in LastNews(n, k)
    PROVE  i = j
<1>1. i \in 1..k /\ j \in 1..k /\ IsNews(i, n) /\ IsNews(j, n)
  BY DEF LastNews
<1>2. ~(i < j) /\ ~(j < i)
  <2>1. i < j => j \in (i + 1)..k
    BY <1>1
  <2>2. j < i => i \in (j + 1)..k
    BY <1>1
  <2> QED
    BY <1>1, <2>1, <2>2 DEF LastNews
<1> QED
  BY <1>1, <1>2

\* A number is listed with the id of its last news, if that is of an attach.
LEMMA ListedFacts ==
    ASSUME NEW k \in Nat, NEW n \in Nums
    PROVE  /\ \A id : ListedAs(n, id, k) <=> n \in DOMAIN ListedAfter(k) /\ ListedAfter(k)[n] = id
           /\ n \in DOMAIN ListedAfter(k) <=> \E i \in LastNews(n, k) : sent[i].kind = "attached"
<1>1. n \in DOMAIN ListedAfter(k) <=> \E i \in LastNews(n, k) : sent[i].kind = "attached"
  BY DEF ListedAfter
<1>2. ASSUME NEW i \in LastNews(n, k) PROVE (CHOOSE j \in LastNews(n, k) : TRUE) = i
  BY OneLastNews
<1>3. ASSUME NEW i \in LastNews(n, k), sent[i].kind = "attached"
      PROVE  ListedAfter(k)[n] = sent[i].id
  BY <1>1, <1>2, <1>3 DEF ListedAfter
<1>4. ASSUME NEW id, ListedAs(n, id, k)
      PROVE  n \in DOMAIN ListedAfter(k) /\ ListedAfter(k)[n] = id
  BY <1>1, <1>3, <1>4 DEF ListedAs
<1>5. ASSUME NEW id, n \in DOMAIN ListedAfter(k), ListedAfter(k)[n] = id
      PROVE  ListedAs(n, id, k)
  BY <1>1, <1>3, <1>5 DEF ListedAs
<1> QED
  BY <1>1, <1>4, <1>5

\* The next packet is the last news of its number, or the last news is what it was.
LEMMA NextNews ==
    ASSUME NEW n, NEW k \in Nat
    PROVE  LastNews(n, k + 1) = IF IsNews(k + 1, n) THEN {k + 1} ELSE LastNews(n, k)
<1>1. ASSUME NEW i \in 1..(k + 1)
      PROVE  IF i = k + 1 THEN \A j \in (i + 1)..(k + 1) : ~IsNews(j, n)
             ELSE /\ i \in 1..k
                  /\ (\A j \in (i + 1)..(k + 1) : ~IsNews(j, n)) <=>
                       /\ \A j \in (i + 1)..k : ~IsNews(j, n)
                       /\ ~IsNews(k + 1, n)
  <2>1. CASE i = k + 1
    BY <2>1
  <2>2. CASE i # k + 1
    <3>1. i \in 1..k /\ (i + 1)..(k + 1) = (i + 1)..k \cup {k + 1}
      BY <2>2
    <3> QED
      BY <2>2, <3>1
  <2> QED
    BY <2>1, <2>2
<1>2. \A i \in 1..k : i \in 1..(k + 1) /\ i # k + 1
  OBVIOUS
<1>3. k + 1 \in 1..(k + 1)
  OBVIOUS
<1>4. CASE IsNews(k + 1, n)
  <2>1. ASSUME NEW i \in LastNews(n, k + 1) PROVE i = k + 1
    BY <1>1, <1>4 DEF LastNews
  <2>2. k + 1 \in LastNews(n, k + 1)
    BY <1>1, <1>3, <1>4 DEF LastNews
  <2> QED
    BY <1>4, <2>1, <2>2
<1>5. CASE ~IsNews(k + 1, n)
  <2>1. ASSUME NEW i \in LastNews(n, k + 1) PROVE i \in LastNews(n, k)
    BY <1>1, <1>5 DEF LastNews
  <2>2. ASSUME NEW i \in LastNews(n, k) PROVE i \in LastNews(n, k + 1)
    BY <1>1, <1>2, <1>5 DEF LastNews
  <2> QED
    BY <1>5, <2>1, <2>2
<1> QED
  BY <1>4, <1>5

\* So the next packet changes what is listed under its number, if it is news.
LEMMA NextListed ==
    ASSUME NEW n, NEW id, NEW k \in Nat
    PROVE  ListedAs(n, id, k + 1) <=>
             IF IsNews(k + 1, n) THEN sent[k + 1].kind = "attached" /\ sent[k + 1].id = id
             ELSE ListedAs(n, id, k)
BY NextNews DEF ListedAs

-----------------------------------------------------------------------------
(* The tables.                                                               *)

\* The port of one device changes, and no other.
LEMMA PortFacts ==
    ASSUME NEW t \in Tables(Ids, PortStates), Good(t), NEW id \in Ids
    PROVE  /\ AfterGet(t, id) \in Tables(Ids, PortStates) /\ Good(AfterGet(t, id))
           /\ Content(AfterGet(t, id)) = Content(t)
           /\ \A v \in PortStates :
                /\ Put(t, id, v) \in Tables(Ids, PortStates) /\ Good(Put(t, id, v))
                /\ Content(Put(t, id, v)) =
                     {p \in Content(t) : p.key # id} \cup {[key |-> id, value |-> v]}
<1>1. id \in DOMAIN Hash /\ Sound(t) /\ \A v \in PortStates : v # NULL
  BY DevicesAssumption DEF PortStates, Good
<1>2. /\ AfterGet(t, id) \in Tables(Ids, PortStates)
      /\ Content(AfterGet(t, id)) = Content(t)
  BY <1>1, AfterGetContent
<1>3. Good(AfterGet(t, id)) /\ \A v \in PortStates : Good(Put(t, id, v))
  BY <1>1, OperationsKeepGood
<1>4. ASSUME NEW v \in PortStates
      PROVE  /\ Put(t, id, v) \in Tables(Ids, PortStates)
             /\ Content(Put(t, id, v)) =
                  {p \in Content(t) : p.key # id} \cup {[key |-> id, value |-> v]}
  BY <1>1, PutContent
<1> QED
  BY <1>2, <1>3, <1>4

\* No other port is open in new that was not in old.
OthersSame(new, old, id) ==
    \A d \in Ids : d # id /\ [key |-> d, value |-> "open"] \in Content(new) =>
        [key |-> d, value |-> "open"] \in Content(old)

\* iwdp_on_attach leaves the ports of other devices alone, and answers no success
\* without an id.
LEMMA AttachFacts ==
    ASSUME TablesOK, NEW id \in Ids \cup {NULL}, NEW o \in AttachOutcomes(id)
    PROVE  /\ o.ok \in BOOLEAN /\ o.iports \in Tables(Ids, PortStates) /\ Good(o.iports)
           /\ o.ok => id \in Ids /\ OthersSame(o.iports, iports, id)
<1>1. iports \in Tables(Ids, PortStates) /\ Good(iports)
  BY DEF TablesOK
<1>2. CASE id = NULL
  <2>1. o = [iports |-> iports, ok |-> FALSE]
    BY <1>2 DEF AttachOutcomes
  <2> QED
    BY <1>1, <2>1
<1>3. CASE id # NULL
  <2> DEFINE got == AfterGet(iports, id)
             new == IF Has(got, id) THEN got ELSE Put(got, id, "closed")
             again == AfterGet(new, id)
             opened == Put(again, id, "open")
             closed == Put(again, id, "closed")
  <2>1. id \in Ids /\ "open" \in PortStates /\ "closed" \in PortStates
    BY <1>3 DEF PortStates
  <2>2. \/ o = [iports |-> got, ok |-> TRUE]
        \/ o = [iports |-> new, ok |-> TRUE]
        \/ o = [iports |-> opened, ok |-> TRUE]
        \/ o.iports = closed /\ o.ok \in BOOLEAN
    BY <1>3 DEF AttachOutcomes
  <2>3. got \in Tables(Ids, PortStates) /\ Good(got) /\ Content(got) = Content(iports)
    BY <1>1, <2>1, PortFacts
  <2> HIDE DEF got
  <2>4. /\ new \in Tables(Ids, PortStates) /\ Good(new)
        /\ \A p \in Content(new) : p.key # id => p \in Content(iports)
    BY <2>1, <2>3, PortFacts
  <2> HIDE DEF new
  <2>5. again \in Tables(Ids, PortStates) /\ Good(again) /\ Content(again) = Content(new)
    BY <2>1, <2>4, PortFacts
  <2> HIDE DEF again
  <2>6. /\ opened \in Tables(Ids, PortStates) /\ Good(opened)
        /\ closed \in Tables(Ids, PortStates) /\ Good(closed)
        /\ Content(opened) = {p \in Content(again) : p.key # id} \cup {[key |-> id, value |-> "open"]}
        /\ Content(closed) = {p \in Content(again) : p.key # id} \cup {[key |-> id, value |-> "closed"]}
    BY <2>1, <2>5, PortFacts
  <2> HIDE DEF opened, closed
  <2>7. \A d \in Ids : [key |-> d, value |-> "open"].key = d
    OBVIOUS
  <2>8. OthersSame(got, iports, id)
    BY <2>3 DEF OthersSame
  <2>9. OthersSame(new, iports, id)
    BY <2>4, <2>7 DEF OthersSame
  <2>10. OthersSame(opened, iports, id) /\ OthersSame(closed, iports, id)
    <3>1. ASSUME NEW p, p \in Content(opened) \/ p \in Content(closed), p.key # id
          PROVE  p \in Content(iports)
      BY <2>4, <2>5, <2>6, <3>1
    <3> QED
      BY <2>7, <3>1 DEF OthersSame
  <2>11. CASE o.iports = closed /\ o.ok \in BOOLEAN
    BY <2>1, <2>6, <2>10, <2>11
  <2>12. CASE o = [iports |-> got, ok |-> TRUE]
    BY <2>1, <2>3, <2>8, <2>12
  <2>13. CASE o = [iports |-> new, ok |-> TRUE]
    BY <2>1, <2>4, <2>9, <2>13
  <2>14. CASE o = [iports |-> opened, ok |-> TRUE]
    BY <2>1, <2>6, <2>10, <2>14
  <2> QED
    BY <2>2, <2>11, <2>12, <2>13, <2>14
<1> QED
  BY <1>2, <1>3

\* iwdp_on_detach closes the port of the device, and leaves the others alone.
LEMMA DetachFacts ==
    ASSUME TablesOK, NEW id \in Ids
    PROVE  /\ PortsAfterDetach(id) \in Tables(Ids, PortStates) /\ Good(PortsAfterDetach(id))
           /\ OthersSame(PortsAfterDetach(id), iports, id)
           /\ [key |-> id, value |-> "open"] \notin Content(PortsAfterDetach(id))
<1> DEFINE got == AfterGet(iports, id)
           closed == Put(got, id, "closed")
           pair == [key |-> id, value |-> "open"]
<1>1. iports \in Tables(Ids, PortStates) /\ Good(iports) /\ "closed" \in PortStates
  BY DEF TablesOK, PortStates
<1>2. got \in Tables(Ids, PortStates) /\ Good(got) /\ Content(got) = Content(iports)
  BY <1>1, PortFacts
<1>3. PortsAfterDetach(id) = IF Value(got, id) = "open" THEN closed ELSE got
  BY DEF PortsAfterDetach
<1> HIDE DEF got
<1>4. /\ closed \in Tables(Ids, PortStates) /\ Good(closed)
      /\ Content(closed) = {p \in Content(got) : p.key # id} \cup {[key |-> id, value |-> "closed"]}
  BY <1>1, <1>2, PortFacts
<1>5. \A d \in Ids : [key |-> d, value |-> "open"].key = d /\ [key |-> d, value |-> "open"].value = "open"
  OBVIOUS
<1>6. pair.key = id /\ pair.value = "open"
  OBVIOUS
<1> HIDE DEF closed
<1>7. CASE Value(got, id) = "open"
  <2>1. OthersSame(closed, iports, id)
    BY <1>2, <1>4, <1>5 DEF OthersSame
  <2>2. pair \notin Content(closed)
    <3>1. [key |-> id, value |-> "closed"].value # pair.value
      BY <1>6
    <3> QED
      BY <1>4, <1>6, <3>1
  <2> QED
    BY <1>3, <1>4, <1>7, <2>1, <2>2
<1>8. CASE Value(got, id) # "open"
  <2>1. OthersSame(got, iports, id)
    BY <1>2 DEF OthersSame
  <2>2. id \in DOMAIN Hash /\ Sound(got)
    BY <1>2, DevicesAssumption DEF Good
  <2>3. \A p \in Content(got) : p.key = id => Value(got, id) = p.value
    BY <1>2, <2>2, FindFacts
  <2>4. pair \notin Content(got)
    BY <1>6, <1>8, <2>3
  <2> QED
    BY <1>2, <1>3, <1>8, <2>1, <2>4
<1> QED
  BY <1>7, <1>8

\* The value of a number that is in the table, and of one that is not.
LEMMA TableValue ==
    ASSUME TablesOK, NEW n \in Nums
    PROVE  /\ \A id \in Ids : [key |-> n, value |-> id] \in Content(table) <=>
                                 n \in Keys(table) /\ Value(table, n) = id
           /\ n \in Keys(table) => Value(table, n) \in Ids
           /\ n \notin Keys(table) => Value(table, n) = NULL
<1>1. table \in Tables(Nums, Ids) /\ Sound(table) /\ n \in DOMAIN Hash
  BY DevicesAssumption DEF TablesOK, Good
<1>2. /\ \A p \in Content(table) : p.key = n => Value(table, n) = p.value
      /\ (\A p \in Content(table) : p.key # n) => Value(table, n) = NULL
  BY <1>1, FindFacts
<1>3. Keys(table) = {p.key : p \in Content(table)}
  BY <1>1, KeysOfContent
<1>4. \A p \in Content(table) : p \in Records(Nums, Ids) /\ p.key \in Nums /\ p.value \in Ids
  BY <1>1, TableFacts
<1>5. ASSUME n \in Keys(table)
      PROVE  /\ Value(table, n) \in Ids
             /\ [key |-> n, value |-> Value(table, n)] \in Content(table)
  <2>1. PICK p \in Content(table) : p.key = n
    BY <1>3, <1>5
  <2>2. Value(table, n) = p.value /\ p.value \in Ids /\ p \in Records(Nums, Ids)
    BY <1>2, <1>4, <2>1
  <2>3. p = [key |-> n, value |-> p.value]
    BY <2>1, <2>2 DEF Records
  <2> QED
    BY <2>2, <2>3
<1>6. ASSUME NEW id \in Ids, [key |-> n, value |-> id] \in Content(table)
      PROVE  n \in Keys(table) /\ Value(table, n) = id
  <2> DEFINE pair == [key |-> n, value |-> id]
  <2>1. pair.key = n /\ pair.value = id /\ pair \in Content(table)
    BY <1>6
  <2> HIDE DEF pair
  <2> QED
    BY <1>2, <1>3, <2>1
<1>7. n \notin Keys(table) => Value(table, n) = NULL
  BY <1>2, <1>3
<1> QED
  BY <1>5, <1>6, <1>7

\* What a number is bound to after dl_recv_packet of an attach, or of a detach.
LEMMA TableStep ==
    ASSUME TablesOK, NEW n \in Nums
    PROVE  /\ RemoveKey(table, n) \in Tables(Nums, Ids) /\ Good(RemoveKey(table, n))
           /\ Content(RemoveKey(table, n)) = {p \in Content(table) : p.key # n}
           /\ Put(table, n, NULL) = RemoveKey(table, n)
           /\ \A id \in Ids :
                /\ Put(table, n, id) \in Tables(Nums, Ids) /\ Good(Put(table, n, id))
                /\ Content(Put(table, n, id)) =
                     {p \in Content(table) : p.key # n} \cup {[key |-> n, value |-> id]}
<1>1. /\ table \in Tables(Nums, Ids) /\ Good(table) /\ Sound(table) /\ n \in DOMAIN Hash
      /\ \A id \in Ids : id # NULL
  BY DevicesAssumption DEF TablesOK, Good
<1>2. Good(RemoveKey(table, n)) /\ \A id \in Ids : Good(Put(table, n, id))
  BY <1>1, OperationsKeepGood
<1>3. /\ RemoveKey(table, n) \in Tables(Nums, Ids)
      /\ Content(RemoveKey(table, n)) = {p \in Content(table) : p.key # n}
  BY <1>1, RemoveKeyContent
<1>4. ASSUME NEW id \in Ids
      PROVE  /\ Put(table, n, id) \in Tables(Nums, Ids)
             /\ Content(Put(table, n, id)) =
                  {p \in Content(table) : p.key # n} \cup {[key |-> n, value |-> id]}
  BY <1>1, PutContent
<1>5. Put(table, n, NULL) = RemoveKey(table, n)
  BY DEF Put
<1> QED
  BY <1>2, <1>3, <1>4, <1>5

\* An answer of dl_recv_packet to the next packet p: the tables are good whatever it
\* is; if it is no error the table is what usbmuxd lists with p, and open ports are
\* of devices in the table.
LEMMA OutcomeFacts ==
    ASSUME StreamOK, TablesOK, ListedOK, NumbersFree, OpenOK, alive,
           NEW h \in Nat, h = handled, h < Len(sent), NEW p, p = sent[h + 1],
           bodyLength = p.size, NEW o \in Outcomes(p)
    PROVE  /\ o.ok \in BOOLEAN
           /\ o.table \in Tables(Nums, Ids) /\ Good(o.table)
           /\ o.iports \in Tables(Ids, PortStates) /\ Good(o.iports)
           /\ o.ok => \A n \in Nums, id \in Ids :
                        [key |-> n, value |-> id] \in Content(o.table) <=> ListedAs(n, id, h + 1)
           /\ o.ok => \A id \in Ids :
                        [key |-> id, value |-> "open"] \in Content(o.iports) =>
                            \E n \in Nums : [key |-> n, value |-> id] \in Content(o.table)
<1> USE DEF TablesOK
<1>1. /\ h + 1 \in 1..Len(sent) /\ p.size \in Int /\ HeaderLength \in Int
      /\ p.kind \in {"attached", "detached"} => p.num \in Nums
      /\ p.kind = "attached" => p.id \in Ids \cup {NULL}
  <2>1. h + 1 \in 1..Len(sent) /\ sent \in Seq(Packets) /\ HeaderLength \in Int
    BY SizesAssumption DEF StreamOK
  <2>2. /\ p.size \in Nat
        /\ p.kind \in {"attached", "detached"} => p.num \in Nums
        /\ p.kind = "attached" => p.id \in Ids \cup {NULL}
    BY <2>1, SentFacts
  <2> QED
    BY <2>1, <2>2
<1>2. \A n \in Nums, id \in Ids :
        /\ [key |-> n, value |-> id] \in Content(table) <=> ListedAs(n, id, h)
        /\ [key |-> n, value |-> id].key = n /\ [key |-> n, value |-> id].value = id
  BY DEF ListedOK
<1>3. \A id \in Ids : [key |-> id, value |-> "open"] \in Content(iports) =>
        \E n \in Nums : [key |-> n, value |-> id] \in Content(table)
  BY DEF OpenOK
<1>4. \A n \in Nums, id \in Ids :
        ListedAs(n, id, h + 1) <=>
            IF p.kind \in {"attached", "detached"} /\ p.num = n /\ p.size >= HeaderLength
            THEN p.kind = "attached" /\ p.id = id
            ELSE ListedAs(n, id, h)
  BY NextListed DEF IsNews
<1>5. CASE p.size # bodyLength \/ bodyLength < HeaderLength \/ p.kind = "fault"
  <2>1. o = [table |-> table, iports |-> iports, ok |-> FALSE]
    BY <1>5 DEF Outcomes
  <2> QED
    BY <2>1
<1>6. CASE /\ ~(p.size # bodyLength \/ bodyLength < HeaderLength \/ p.kind = "fault")
           /\ p.kind \in {"ack", "ignored"}
  <2>1. o = [table |-> table, iports |-> iports, ok |-> TRUE]
    BY <1>6 DEF Outcomes
  <2>2. p.kind \notin {"attached", "detached"}
    BY <1>6
  <2>3. \A n \in Nums, id \in Ids : ListedAs(n, id, h + 1) <=> ListedAs(n, id, h)
    BY <1>4, <2>2
  <2> QED
    BY <1>2, <1>3, <2>1, <2>3
<1>7. CASE /\ ~(p.size # bodyLength \/ bodyLength < HeaderLength \/ p.kind = "fault")
           /\ p.kind = "attached"
  <2> DEFINE m == p.num
             put == Put(table, m, p.id)
  <2>1. PICK a \in AttachOutcomes(p.id) : o = [table |-> put, iports |-> a.iports, ok |-> a.ok]
    BY <1>7 DEF Outcomes
  <2>2. m \in Nums /\ p.id \in Ids \cup {NULL} /\ p.size >= HeaderLength
    BY <1>1, <1>7
  <2>3. /\ a.ok \in BOOLEAN /\ a.iports \in Tables(Ids, PortStates) /\ Good(a.iports)
        /\ a.ok => p.id \in Ids /\ OthersSame(a.iports, iports, p.id)
    BY <2>2, AttachFacts
  <2>4. put \in Tables(Nums, Ids) /\ Good(put)
    BY <2>2, TableStep
  <2>5. ASSUME a.ok
        PROVE  /\ \A n \in Nums, id \in Ids :
                    [key |-> n, value |-> id] \in Content(put) <=> ListedAs(n, id, h + 1)
               /\ \A id \in Ids : [key |-> id, value |-> "open"] \in Content(a.iports) =>
                    \E n \in Nums : [key |-> n, value |-> id] \in Content(put)
    <3>1. /\ p.id \in Ids
          /\ Content(put) = {q \in Content(table) : q.key # m} \cup {[key |-> m, value |-> p.id]}
      BY <2>2, <2>3, <2>5, TableStep
    <3>2. ASSUME NEW n \in Nums, NEW id \in Ids
          PROVE  [key |-> n, value |-> id] \in Content(put) <=>
                    IF n = m THEN id = p.id ELSE [key |-> n, value |-> id] \in Content(table)
      <4>1. [key |-> n, value |-> id].key = n /\ [key |-> n, value |-> id].value = id
        OBVIOUS
      <4>2. [key |-> m, value |-> p.id].key = m /\ [key |-> m, value |-> p.id].value = p.id
        OBVIOUS
      <4> QED
        BY <3>1, <4>1, <4>2
    <3>3. \A n \in Nums, id \in Ids :
            ListedAs(n, id, h + 1) <=> IF n = m THEN id = p.id ELSE ListedAs(n, id, h)
      BY <1>4, <1>7, <2>2
    <3>4. ASSUME NEW n \in Nums, NEW id \in Ids
          PROVE  [key |-> n, value |-> id] \in Content(put) <=> ListedAs(n, id, h + 1)
      BY <1>2, <3>2, <3>3
    <3>5. ASSUME NEW id \in Ids PROVE [key |-> m, value |-> id] \notin Content(table)
      <4> DEFINE k == h + 1
      <4>1. k \in 1..Len(sent) /\ k - 1 = h /\ sent[k].kind = "attached" /\ sent[k].num = m
        BY <1>1, <1>7
      <4>2. m \notin DOMAIN ListedAfter(h)
        BY <4>1 DEF NumbersFree
      <4>3. ~ListedAs(m, id, h)
        BY <2>2, <4>2, ListedFacts
      <4> QED
        BY <1>2, <2>2, <4>3
    <3>6. ASSUME NEW id \in Ids, [key |-> id, value |-> "open"] \in Content(a.iports)
          PROVE  \E n \in Nums : [key |-> n, value |-> id] \in Content(put)
      <4>1. CASE id = p.id
        BY <2>2, <3>2, <4>1
      <4>2. CASE id # p.id
        <5>1. [key |-> id, value |-> "open"] \in Content(iports)
          BY <2>3, <2>5, <3>6, <4>2 DEF OthersSame
        <5>2. PICK n \in Nums : [key |-> n, value |-> id] \in Content(table)
          BY <1>3, <5>1
        <5>3. n # m
          BY <3>5, <5>2
        <5> QED
          BY <3>2, <5>2, <5>3
      <4> QED
        BY <4>1, <4>2
    <3> QED
      BY <3>4, <3>6
  <2> HIDE DEF put
  <2>6. o.ok = a.ok /\ o.table = put /\ o.iports = a.iports
    BY <2>1
  <2> QED
    BY <2>3, <2>4, <2>5, <2>6
<1>8. CASE /\ ~(p.size # bodyLength \/ bodyLength < HeaderLength \/ p.kind = "fault")
           /\ p.kind = "detached"
  <2> DEFINE m == p.num
             d == Value(table, m)
             rest == RemoveKey(table, m)
             ports == PortsAfterDetach(d)
  <2>1. m \in Nums /\ p.size >= HeaderLength
    BY <1>1, <1>8
  <2>2. CASE d = NULL
    <3>1. o = [table |-> table, iports |-> iports, ok |-> FALSE]
      BY <1>8, <2>2 DEF Outcomes
    <3> QED
      BY <3>1
  <2>3. CASE d # NULL
    <3>1. o = [table |-> rest, iports |-> ports, ok |-> TRUE]
      BY <1>8, <2>3 DEF Outcomes
    <3>2. /\ d \in Ids
          /\ \A id \in Ids : [key |-> m, value |-> id] \in Content(table) => id = d
      BY <2>1, <2>3, TableValue
    <3>3. /\ rest \in Tables(Nums, Ids) /\ Good(rest)
          /\ Content(rest) = {q \in Content(table) : q.key # m}
      BY <2>1, TableStep
    <3>4. /\ ports \in Tables(Ids, PortStates) /\ Good(ports)
          /\ OthersSame(ports, iports, d) /\ [key |-> d, value |-> "open"] \notin Content(ports)
      BY <3>2, DetachFacts
    <3> HIDE DEF rest, ports, d
    <3>5. ASSUME NEW n \in Nums, NEW id \in Ids
          PROVE  [key |-> n, value |-> id] \in Content(rest) <=>
                    n # m /\ [key |-> n, value |-> id] \in Content(table)
      BY <1>2, <3>3
    <3>6. ASSUME NEW n \in Nums, NEW id \in Ids
          PROVE  [key |-> n, value |-> id] \in Content(rest) <=> ListedAs(n, id, h + 1)
      BY <1>2, <1>4, <1>8, <2>1, <3>5
    <3>7. ASSUME NEW id \in Ids, [key |-> id, value |-> "open"] \in Content(ports)
          PROVE  \E n \in Nums : [key |-> n, value |-> id] \in Content(rest)
      <4>1. id # d /\ [key |-> id, value |-> "open"] \in Content(iports)
        BY <3>4, <3>7 DEF OthersSame
      <4>2. PICK n \in Nums : [key |-> n, value |-> id] \in Content(table)
        BY <1>3, <4>1
      <4>3. n # m
        BY <3>2, <4>1, <4>2
      <4> QED
        BY <3>5, <4>2, <4>3
    <3> QED
      BY <3>1, <3>3, <3>4, <3>6, <3>7
  <2> QED
    BY <2>2, <2>3
<1> QED
  <2>1. p.kind \in {"ack", "ignored", "fault", "attached", "detached"}
    <3>1. h + 1 \in 1..Len(sent) /\ sent \in Seq(Packets)
      BY DEF StreamOK
    <3> QED
      BY <3>1, SentFacts
  <2> QED
    BY <1>5, <1>6, <1>7, <1>8, <2>1

-----------------------------------------------------------------------------
(* The steps.                                                                *)

\* What is said of the tables stays while they, and what was sent and handled, do.
LEMMA TablesStay ==
    ASSUME TablesOK, ListedOK, NumbersFree, OpenOK, UNCHANGED <<table, iports, alive, sent, handled>>
    PROVE  TablesOK' /\ ListedOK' /\ NumbersFree' /\ OpenOK'
<1>1. TablesOK'
  BY DEF TablesOK
<1>2. ListedOK'
  <2>1. ASSUME NEW n \in Nums, NEW id \in Ids
        PROVE  ListedAs(n, id, handled)' <=> ListedAs(n, id, handled)
    <3>1. LastNews(n, handled)' = LastNews(n, handled)
      BY DEF LastNews, IsNews
    <3> QED
      BY <3>1 DEF ListedAs
  <2> QED
    BY <2>1 DEF ListedOK
<1>3. NumbersFree'
  BY DEF NumbersFree, ListedAfter, LastNews, IsNews
<1>4. OpenOK'
  BY DEF OpenOK
<1> QED
  BY <1>1, <1>2, <1>3, <1>4

\* The next packet that was not handled, and the place of its first byte and of the
\* one after its last.
NextStart == starts[handled + 1]
NextSize == sent[handled + 1].size
NextEnd == starts[handled + 2]

\* When a packet is handled, it is the next one and all of it was received; the rest
\* of the input starts after it.
LEMMA RecvPacketFacts ==
    ASSUME StreamOK, ParserOK, RecvPacket
    PROVE  /\ alive /\ handled \in Nat /\ handled < Len(sent) /\ handled + 1 \in 1..Len(sent)
           /\ At(Input(in)) = sent[handled + 1] /\ bodyLength = NextSize
           /\ NextSize \in Nat /\ NextSize >= 1 /\ NextStart \in Nat /\ NextEnd = NextStart + NextSize
           /\ NextEnd <= delivered /\ delivered \in Nat
           /\ Input(in) = Span(NextStart, delivered) /\ Reading(in) /\ in \in Buffers(StreamBytes)
           /\ Len(Input(in)) = delivered - NextStart /\ NextSize <= Len(Input(in))
           /\ SubSeq(Input(in), NextSize + 1, Len(Input(in))) = Span(NextEnd, delivered)
<1>1. /\ looping /\ hasLength /\ Complete(Input(in)) /\ alive
      /\ handled < Len(sent) /\ bodyLength = NextSize
      /\ Input(in) = Span(NextStart, delivered) /\ NextStart <= delivered
      /\ Reading(in) /\ in \in Buffers(StreamBytes)
  BY DEF RecvPacket, ParserOK, Unread, NextStart, NextSize
<1>2. /\ handled \in Nat /\ Len(sent) \in Nat /\ delivered \in Nat /\ sent \in Seq(Packets)
      /\ \A k \in 1..Len(sent) : starts[k + 1] = starts[k] + sent[k].size
  BY DEF StreamOK
<1>3. handled + 1 \in 1..Len(sent)
  BY <1>1, <1>2
<1>4. NextSize \in Nat /\ NextSize >= 1
  <2> DEFINE k == handled + 1
  <2>1. k \in 1..Len(sent)
    BY <1>3
  <2> HIDE DEF k
  <2>2. sent[k].size \in Nat /\ sent[k].size >= 1
    BY <1>2, <2>1, SentFacts
  <2> QED
    BY <2>2 DEF NextSize, k
<1>5. NextStart \in Nat
  BY StartsFacts DEF NextStart
<1>6. NextEnd = NextStart + NextSize
  <2>1. starts[(handled + 1) + 1] = starts[handled + 1] + sent[handled + 1].size
    BY <1>2, <1>3
  <2>2. (handled + 1) + 1 = handled + 2
    BY <1>2
  <2> QED
    BY <2>1, <2>2 DEF NextStart, NextSize, NextEnd
<1>7. Len(Input(in)) = delivered - NextStart
  BY <1>1, <1>2, <1>5, SpanFacts
<1>8. NextSize <= Len(Input(in))
  BY <1>1, <1>2, <1>4, <1>5, <1>7 DEF Complete
<1>9. NextEnd <= delivered
  BY <1>2, <1>4, <1>5, <1>6, <1>7, <1>8
<1>10. At(Input(in)) = sent[handled + 1]
  <2>1. Len(Input(in)) >= 1
    BY <1>2, <1>4, <1>5, <1>7, <1>8
  <2> QED
    BY <1>1, <2>1, NextPacket
<1>11. SubSeq(Input(in), NextSize + 1, Len(Input(in))) = Span(NextEnd, delivered)
  <2>1. SubSeq(Span(NextStart, delivered), NextSize + 1, delivered - NextStart) =
          Span(NextStart + NextSize, delivered)
    BY <1>1, <1>2, <1>4, <1>5, <1>6, <1>9, SpanRest
  <2> QED
    BY <1>1, <1>6, <1>7, <2>1
<1> QED
  BY <1>1, <1>2, <1>3, <1>4, <1>5, <1>6, <1>7, <1>8, <1>9, <1>10, <1>11

\* usbmuxd sends a packet.
LEMMA SendsKeeps ==
    ASSUME IInv, NEW packet \in Packets, Sends(packet)
    PROVE  IInv'
<1> USE DEF IInv
<1>1. /\ sent \in Seq(Packets) /\ starts \in Seq(Nat) /\ Len(sent) \in Nat
      /\ Len(starts) = Len(sent) + 1
      /\ handled \in Nat /\ handled <= Len(sent) /\ delivered \in Nat /\ delivered <= BytesSent
  BY DEF StreamOK
<1>2. /\ BytesSent \in Nat /\ BytesSent = starts[Len(sent) + 1]
      /\ \A k \in 1..(Len(sent) + 1) : starts[k] \in Nat /\ starts[k] <= BytesSent
  BY StartsFacts
<1>3. packet.size \in Nat /\ packet.size >= 1
  BY PacketsAssumption, SizesAssumption
<1>4. /\ sent' = Append(sent, packet) /\ starts' = Append(starts, BytesSent + packet.size)
      /\ UNCHANGED <<in, hasLength, bodyLength, looping, table, iports, alive, delivered, handled>>
      /\ packet.kind = "attached" => packet.num \notin DOMAIN ListedAfter(Len(sent))
  BY DEF Sends, parser
<1>5. /\ sent' \in Seq(Packets) /\ Len(sent') = Len(sent) + 1
      /\ \A k \in 1..Len(sent) : sent'[k] = sent[k]
      /\ sent'[Len(sent) + 1] = packet
  BY <1>1, <1>4
<1>6. /\ starts' \in Seq(Nat) /\ Len(starts') = Len(sent) + 2
      /\ \A k \in 1..(Len(sent) + 1) : starts'[k] = starts[k]
      /\ starts'[Len(sent) + 2] = BytesSent + packet.size
  <2>1. BytesSent + packet.size \in Nat
    BY <1>2, <1>3
  <2> DEFINE end == BytesSent + packet.size
  <2> HIDE DEF end
  <2>2. starts' = Append(starts, end) /\ end \in Nat
    BY <1>4, <2>1 DEF end
  <2>3. /\ starts' \in Seq(Nat) /\ Len(starts') = Len(starts) + 1
        /\ \A k \in 1..Len(starts) : starts'[k] = starts[k]
        /\ starts'[Len(starts) + 1] = end
    BY <1>1, <2>2
  <2>4. Len(starts) + 1 = Len(sent) + 2
    BY <1>1
  <2> QED
    BY <1>1, <2>3, <2>4 DEF end
<1>7. BytesSent' = BytesSent + packet.size
  BY <1>6 DEF BytesSent
<1>8. StreamOK'
  <2>1. starts'[1] = 0
    BY <1>1, <1>6 DEF StreamOK
  <2>2. ASSUME NEW k \in 1..Len(sent') PROVE starts'[k + 1] = starts'[k] + sent'[k].size
    <3>1. CASE k = Len(sent) + 1
      <4>1. k + 1 = Len(sent) + 2 /\ k \in 1..(Len(sent) + 1)
        BY <1>1, <3>1
      <4> QED
        BY <1>2, <1>5, <1>6, <3>1, <4>1
    <3>2. CASE k # Len(sent) + 1
      <4>1. k \in 1..Len(sent) /\ k \in 1..(Len(sent) + 1) /\ k + 1 \in 1..(Len(sent) + 1)
        BY <1>1, <1>5, <3>2
      <4>2. starts[k + 1] = starts[k] + sent[k].size
        BY <4>1 DEF StreamOK
      <4> QED
        BY <1>5, <1>6, <4>1, <4>2
    <3> QED
      BY <3>1, <3>2
  <2>3. ASSUME NEW i \in 1..Len(starts'), NEW j \in 1..Len(starts'), i < j
        PROVE  starts'[i] < starts'[j]
    <3>1. i \in 1..(Len(sent) + 1)
      BY <1>1, <1>6, <2>3
    <3>2. starts'[i] = starts[i] /\ starts[i] \in Nat /\ starts[i] <= BytesSent
      BY <1>2, <1>6, <3>1
    <3>3. CASE j = Len(sent) + 2
      BY <1>2, <1>3, <1>6, <3>2, <3>3
    <3>4. CASE j # Len(sent) + 2
      <4>1. j \in 1..(Len(sent) + 1) /\ i \in 1..Len(starts) /\ j \in 1..Len(starts)
        BY <1>1, <1>6, <3>1, <3>4
      <4>2. starts[i] < starts[j]
        BY <2>3, <4>1 DEF StreamOK
      <4> QED
        BY <1>6, <3>2, <4>1, <4>2
    <3> QED
      BY <3>3, <3>4
  <2>4. delivered' \in Nat /\ delivered' <= BytesSent' /\ handled' \in Nat /\ handled' <= Len(sent')
    BY <1>1, <1>2, <1>3, <1>4, <1>5, <1>7
  <2>5. Len(starts') = Len(sent') + 1
    BY <1>1, <1>5, <1>6
  <2> QED
    BY <1>5, <1>6, <2>1, <2>2, <2>3, <2>4, <2>5 DEF StreamOK
<1>9. ParserOK'
  <2>1. /\ hasLength' = hasLength /\ alive' = alive /\ looping' = looping /\ in' = in
        /\ bodyLength' = bodyLength /\ handled' = handled /\ delivered' = delivered
    BY <1>4
  <2>2. starts'[handled + 1] = starts[handled + 1]
    BY <1>1, <1>6
  <2>3. Unread' = Unread
    BY <2>1 DEF Unread
  <2>4. Span(starts[handled + 1], delivered)' = Span(starts[handled + 1], delivered)
    BY <2>1, <2>2 DEF Span
  <2>5. hasLength => handled < Len(sent') /\ bodyLength = sent'[handled + 1].size
    <3>1. SUFFICES ASSUME hasLength PROVE handled < Len(sent') /\ bodyLength = sent'[handled + 1].size
      OBVIOUS
    <3>2. handled < Len(sent) /\ bodyLength = sent[handled + 1].size
      BY <3>1 DEF ParserOK
    <3>3. handled + 1 \in 1..Len(sent)
      BY <1>1, <3>2
    <3> QED
      BY <1>1, <1>5, <3>2, <3>3
  <2>6. alive' => starts'[handled' + 1] <= delivered' /\ Unread' = Span(starts'[handled' + 1], delivered')
    BY <2>1, <2>2, <2>3 DEF ParserOK
  <2>7. IF hasLength' THEN handled' < Len(sent') /\ bodyLength' = sent'[handled' + 1].size
        ELSE bodyLength' = 0
    BY <2>1, <2>5 DEF ParserOK
  <2>8. /\ hasLength' \in BOOLEAN /\ alive' \in BOOLEAN /\ looping' \in BOOLEAN
        /\ (looping' => alive') /\ in' \in Buffers(StreamBytes)
        /\ IF looping' THEN Reading(in') ELSE InBounds(in')
    BY <2>1 DEF ParserOK
  <2> QED
    BY <2>6, <2>7, <2>8 DEF ParserOK
<1>10. TablesOK' /\ OpenOK'
  BY <1>4 DEF TablesOK, OpenOK
<1>11. ASSUME NEW k \in 0..Len(sent), NEW n PROVE LastNews(n, k)' = LastNews(n, k)
  <2>1. \A i \in 1..k : i \in 1..Len(sent)
    BY <1>1
  <2>2. \A i \in 1..k : sent'[i] = sent[i] /\ (IsNews(i, n)' <=> IsNews(i, n))
    BY <1>5, <2>1 DEF IsNews
  <2>3. \A i \in 1..k : (i + 1)..k \subseteq 1..k
    OBVIOUS
  <2> QED
    BY <2>2, <2>3 DEF LastNews
<1>12. ListedOK'
  <2>1. PICK h \in 0..Len(sent) : h = handled /\ h = handled'
    BY <1>1, <1>4
  <2>2. \A i \in 1..h : sent'[i] = sent[i]
    BY <1>1, <1>5
  <2>3. ASSUME NEW n \in Nums, NEW id \in Ids PROVE ListedAs(n, id, handled)' <=> ListedAs(n, id, handled)
    <3>1. LastNews(n, h)' = LastNews(n, h) /\ \A i \in LastNews(n, h) : i \in 1..h
      BY <1>11 DEF LastNews
    <3>2. ListedAs(n, id, h)' <=> ListedAs(n, id, h)
      BY <2>2, <3>1 DEF ListedAs
    <3> QED
      BY <2>1, <3>2 DEF ListedAs, LastNews, IsNews
  <2> QED
    BY <1>4, <2>3 DEF ListedOK
<1>13. NumbersFree'
  <2> SUFFICES ASSUME NEW k \in 1..Len(sent'), sent'[k].kind = "attached"
               PROVE  sent'[k].num \notin (DOMAIN ListedAfter(k - 1))'
    BY DEF NumbersFree
  <2> DEFINE j == k - 1
  <2>1. j \in 0..Len(sent) /\ (k # Len(sent) + 1 => k \in 1..Len(sent))
    BY <1>1, <1>5
  <2>2. sent'[k].num \notin DOMAIN ListedAfter(j)
    <3>1. CASE k = Len(sent) + 1
      <4>1. j = Len(sent)
        BY <1>1, <3>1
      <4> QED
        BY <1>4, <1>5, <3>1, <4>1
    <3>2. CASE k # Len(sent) + 1
      BY <1>5, <2>1, <3>2 DEF NumbersFree
    <3> QED
      BY <3>1, <3>2
  <2> HIDE DEF j
  <2>3. (DOMAIN ListedAfter(j))' = DOMAIN ListedAfter(j)
    <3>1. \A n : LastNews(n, j)' = LastNews(n, j)
      BY <1>11, <2>1
    <3>2. \A n : \A i \in LastNews(n, j) : sent'[i] = sent[i]
      BY <1>5, <2>1 DEF LastNews
    <3>3. /\ DOMAIN ListedAfter(j) = {m \in Nums : \E i \in LastNews(m, j) : sent[i].kind = "attached"}
          /\ (DOMAIN ListedAfter(j))' =
               {m \in Nums : \E i \in LastNews(m, j)' : sent'[i].kind = "attached"}
      BY DEF ListedAfter
    <3> QED
      BY <3>1, <3>2, <3>3
  <2> QED
    BY <2>2, <2>3 DEF j
<1> QED
  BY <1>8, <1>9, <1>10, <1>12, <1>13

\* The next bytes arrive.
LEMMA OnRecvKeeps ==
    ASSUME IInv, NEW n \in 1..BytesSent, OnRecv(n)
    PROVE  /\ IInv'
           /\ Input(in') = Kept(in) \o Span(delivered, delivered + n)
<1> USE DEF IInv
<1>1. /\ alive /\ ~looping /\ delivered + n <= BytesSent
      /\ in' = BeginInput(in, Span(delivered, delivered + n))
      /\ delivered' = delivered + n /\ looping' = TRUE
      /\ UNCHANGED <<hasLength, bodyLength, table, iports, alive, sent, starts, handled>>
  BY DEF OnRecv
<1>2. BytesSent \in Nat /\ starts[handled + 1] \in Nat
  BY StartsFacts
<1>3. n \in Nat /\ n >= 1 /\ delivered \in Nat
  BY <1>2 DEF StreamOK
<1> DEFINE end == delivered + n
           buf == Span(delivered, end)
           s == starts[handled + 1]
<1>4. end \in Nat /\ delivered <= end
  BY <1>3
<1>5. /\ in \in Buffers(StreamBytes) /\ InBounds(in) /\ s <= delivered /\ Kept(in) = Span(s, delivered)
  BY <1>1 DEF ParserOK, Unread
<1> HIDE DEF end
<1>6. buf \in Seq(StreamBytes) /\ Garbage \in StreamBytes
  BY <1>3, <1>4, SpanFacts DEF StreamBytes
<1> HIDE DEF buf
<1>7. in' = BeginInput(in, buf)
  BY <1>1 DEF buf, end
<1>8. in' \in Buffers(StreamBytes) /\ Reading(in') /\ Input(in') = Kept(in) \o buf
  BY <1>5, <1>6, <1>7, BeginInputReads
<1>9. Kept(in) \o buf = Span(s, end)
  <2>1. s \in Nat
    BY <1>2
  <2>2. s <= delivered /\ Kept(in) = Span(s, delivered)
    BY <1>5
  <2> HIDE DEF s
  <2>3. Span(s, delivered) \o Span(delivered, end) = Span(s, end)
    BY <1>3, <1>4, <2>1, <2>2, SpanGoesOn
  <2> QED
    BY <2>2, <2>3 DEF buf
<1>10. StreamOK'
  BY <1>1, <1>3 DEF StreamOK, BytesSent
<1>11. ParserOK'
  <2>1. Unread' = Span(s, end)
    BY <1>1, <1>8, <1>9 DEF Unread
  <2>2. s' = s /\ delivered' = end /\ s <= end
    BY <1>1, <1>2, <1>3, <1>5 DEF end
  <2>3. Span(starts[handled + 1], delivered)' = Span(s, end)
    BY <2>2 DEF Span
  <2>4. alive' => starts'[handled' + 1] <= delivered' /\ Unread' = Span(starts[handled + 1], delivered)'
    BY <2>1, <2>2, <2>3
  <2>5. IF hasLength' THEN handled' < Len(sent') /\ bodyLength' = sent'[handled' + 1].size
        ELSE bodyLength' = 0
    BY <1>1 DEF ParserOK
  <2>6. /\ hasLength' \in BOOLEAN /\ alive' \in BOOLEAN /\ looping' = TRUE /\ alive' = TRUE
    BY <1>1 DEF ParserOK
  <2> QED
    BY <1>8, <2>4, <2>5, <2>6 DEF ParserOK
<1>12. TablesOK' /\ ListedOK' /\ NumbersFree' /\ OpenOK'
  BY <1>1, TablesStay
<1> QED
  BY <1>8, <1>10, <1>11, <1>12 DEF buf, end

\* A length is read: the one of the next packet.
LEMMA RecvLengthKeeps ==
    ASSUME IInv, RecvLength
    PROVE  IInv'
<1> USE DEF IInv
<1>1. /\ looping /\ Len(Input(in)) >= LengthBytes
      /\ bodyLength' = At(Input(in)).size /\ hasLength' = TRUE
      /\ UNCHANGED <<in, table, iports, alive, looping, sent, starts, delivered, handled>>
  BY DEF RecvLength
<1>2. Len(Input(in)) >= 1
  <2>1. in \in Buffers(StreamBytes) /\ Reading(in)
    BY <1>1 DEF ParserOK
  <2>2. Len(Input(in)) \in Nat
    BY <2>1, InputFacts
  <2> QED
    BY <1>1, <2>2, SizesAssumption
<1>3. handled < Len(sent) /\ At(Input(in)) = sent[handled + 1]
  BY <1>1, <1>2, NextPacket
<1>4. StreamOK'
  BY <1>1 DEF StreamOK, BytesSent
<1>5. ParserOK'
  <2>1. Unread' = Unread /\ Span(starts[handled + 1], delivered)' = Span(starts[handled + 1], delivered)
    BY <1>1 DEF Unread, Span
  <2>2. alive' => starts'[handled' + 1] <= delivered' /\ Unread' = Span(starts[handled + 1], delivered)'
    BY <1>1, <2>1 DEF ParserOK
  <2>3. handled' < Len(sent') /\ bodyLength' = sent'[handled' + 1].size
    BY <1>1, <1>3
  <2>4. /\ alive' \in BOOLEAN /\ looping' \in BOOLEAN /\ (looping' => alive')
        /\ in' \in Buffers(StreamBytes) /\ IF looping' THEN Reading(in') ELSE InBounds(in')
    BY <1>1 DEF ParserOK
  <2> QED
    BY <1>1, <2>2, <2>3, <2>4 DEF ParserOK
<1>6. TablesOK' /\ ListedOK' /\ NumbersFree' /\ OpenOK'
  BY <1>1, TablesStay
<1> QED
  BY <1>4, <1>5, <1>6

\* More is needed: what is left is kept.
LEMMA RecvMoreKeeps ==
    ASSUME IInv, RecvMore
    PROVE  IInv' /\ Kept(in') = Input(in)
<1> USE DEF IInv
<1>1. /\ looping /\ in' = EndInput(in) /\ looping' = FALSE
      /\ UNCHANGED <<hasLength, bodyLength, table, iports, alive, sent, starts, delivered, handled>>
  BY DEF RecvMore
<1>2. in \in Buffers(StreamBytes) /\ Reading(in) /\ Garbage \in StreamBytes
  BY <1>1 DEF ParserOK, StreamBytes
<1>3. in' \in Buffers(StreamBytes) /\ InBounds(in') /\ Kept(in') = Input(in)
  BY <1>1, <1>2, EndInputKeeps
<1>4. StreamOK'
  BY <1>1 DEF StreamOK, BytesSent
<1>5. ParserOK'
  <2>1. Unread' = Unread /\ Span(starts[handled + 1], delivered)' = Span(starts[handled + 1], delivered)
    BY <1>1, <1>3 DEF Unread, Span, ParserOK
  <2>2. alive' => starts'[handled' + 1] <= delivered' /\ Unread' = Span(starts[handled + 1], delivered)'
    BY <1>1, <2>1 DEF ParserOK
  <2>3. IF hasLength' THEN handled' < Len(sent') /\ bodyLength' = sent'[handled' + 1].size
        ELSE bodyLength' = 0
    BY <1>1 DEF ParserOK
  <2>4. hasLength' \in BOOLEAN /\ alive' \in BOOLEAN
    BY <1>1 DEF ParserOK
  <2> QED
    BY <1>1, <1>3, <2>2, <2>3, <2>4 DEF ParserOK
<1>6. TablesOK' /\ ListedOK' /\ NumbersFree' /\ OpenOK'
  BY <1>1, TablesStay
<1> QED
  BY <1>3, <1>4, <1>5, <1>6

\* The inspector of a device ends: one port less is open.
LEMMA InspectorEndsKeeps ==
    ASSUME IInv, NEW id \in Ids, InspectorEnds(id)
    PROVE  IInv'
<1> USE DEF IInv
<1>1. /\ iports' = Put(iports, id, "closed")
      /\ UNCHANGED <<parser, table, alive, sent, starts, delivered, handled>>
  BY DEF InspectorEnds
<1>2. /\ iports' \in Tables(Ids, PortStates) /\ Good(iports')
      /\ Content(iports') = {p \in Content(iports) : p.key # id} \cup {[key |-> id, value |-> "closed"]}
  <2>1. iports \in Tables(Ids, PortStates) /\ Good(iports) /\ "closed" \in PortStates
    BY DEF TablesOK, PortStates
  <2> QED
    BY <1>1, <2>1, PortFacts
<1>3. ASSUME NEW d \in Ids, [key |-> d, value |-> "open"] \in Content(iports')
      PROVE  [key |-> d, value |-> "open"] \in Content(iports)
  <2>1. [key |-> d, value |-> "open"].value # [key |-> id, value |-> "closed"].value
    OBVIOUS
  <2> QED
    BY <1>2, <1>3, <2>1
<1>4. StreamOK'
  BY <1>1 DEF StreamOK, BytesSent
<1>5. ParserOK'
  <2>1. Unread' = Unread /\ Span(starts[handled + 1], delivered)' = Span(starts[handled + 1], delivered)
    BY <1>1 DEF Unread, Span, parser
  <2> QED
    BY <1>1, <2>1 DEF ParserOK, parser
<1>6. TablesOK'
  BY <1>1, <1>2 DEF TablesOK
<1>7. OpenOK'
  BY <1>1, <1>3 DEF OpenOK
<1>8. ListedOK' /\ NumbersFree'
  <2>1. ASSUME NEW n \in Nums, NEW d \in Ids
        PROVE  ListedAs(n, d, handled)' <=> ListedAs(n, d, handled)
    <3>1. LastNews(n, handled)' = LastNews(n, handled)
      BY <1>1 DEF LastNews, IsNews
    <3> QED
      BY <1>1, <3>1 DEF ListedAs
  <2> QED
    BY <1>1, <2>1 DEF ListedOK, NumbersFree, ListedAfter, LastNews, IsNews
<1> QED
  BY <1>4, <1>5, <1>6, <1>7, <1>8

\* A packet is handled.
LEMMA RecvPacketKeeps ==
    ASSUME IInv, RecvPacket
    PROVE  IInv'
<1> USE DEF IInv
<1>1. /\ alive /\ handled \in Nat /\ handled < Len(sent) /\ handled + 1 \in 1..Len(sent)
      /\ At(Input(in)) = sent[handled + 1] /\ bodyLength = NextSize
      /\ NextSize \in Nat /\ NextSize >= 1 /\ NextStart \in Nat /\ NextEnd = NextStart + NextSize
      /\ NextEnd <= delivered /\ delivered \in Nat
      /\ Input(in) = Span(NextStart, delivered) /\ Reading(in) /\ in \in Buffers(StreamBytes)
      /\ NextSize <= Len(Input(in))
      /\ SubSeq(Input(in), NextSize + 1, Len(Input(in))) = Span(NextEnd, delivered)
  BY RecvPacketFacts
<1> DEFINE read == Advance(in, bodyLength)
<1>2. PICK o \in Outcomes(At(Input(in))) :
        /\ table' = o.table /\ iports' = o.iports
        /\ in' = IF o.ok THEN read ELSE EndInput(read)
        /\ looping' = o.ok /\ alive' = o.ok
  BY DEF RecvPacket
<1>3. /\ hasLength' = FALSE /\ bodyLength' = 0 /\ handled' = handled + 1
      /\ UNCHANGED <<sent, starts, delivered>>
  BY DEF RecvPacket
<1>4. PICK h \in Nat : h = handled
  BY <1>1
<1>5. /\ o.ok \in BOOLEAN
      /\ o.table \in Tables(Nums, Ids) /\ Good(o.table)
      /\ o.iports \in Tables(Ids, PortStates) /\ Good(o.iports)
      /\ o.ok => \A n \in Nums, id \in Ids :
                    [key |-> n, value |-> id] \in Content(o.table) <=> ListedAs(n, id, h + 1)
      /\ o.ok => \A id \in Ids :
                    [key |-> id, value |-> "open"] \in Content(o.iports) =>
                        \E n \in Nums : [key |-> n, value |-> id] \in Content(o.table)
  <2> DEFINE p == sent[h + 1]
  <2>1. o \in Outcomes(p) /\ bodyLength = p.size /\ h < Len(sent)
    BY <1>1, <1>2, <1>4 DEF NextSize
  <2> HIDE DEF p
  <2>2. p = sent[h + 1]
    BY DEF p
  <2> QED
    BY <1>1, <1>4, <2>1, <2>2, OutcomeFacts
<1>6. /\ read \in Buffers(StreamBytes) /\ Reading(read) /\ Input(read) = Span(NextEnd, delivered)
  <2> DEFINE n == bodyLength
  <2>1. n \in Nat /\ n <= Len(Input(in)) /\ n = NextSize
    BY <1>1
  <2> HIDE DEF n
  <2>2. /\ Advance(in, n) \in Buffers(StreamBytes) /\ Reading(Advance(in, n))
        /\ Input(Advance(in, n)) = SubSeq(Input(in), n + 1, Len(Input(in)))
    BY <1>1, <2>1, AdvanceReads
  <2> QED
    BY <1>1, <2>1, <2>2 DEF n
<1> HIDE DEF read
<1>7. EndInput(read) \in Buffers(StreamBytes) /\ InBounds(EndInput(read))
  <2>1. Garbage \in StreamBytes
    BY DEF StreamBytes
  <2> QED
    BY <1>6, <2>1, EndInputKeeps
<1>8. StreamOK'
  <2>1. Len(sent) \in Nat /\ handled' \in Nat /\ handled' <= Len(sent)
    BY <1>1, <1>3 DEF StreamOK
  <2> QED
    BY <1>3, <2>1 DEF StreamOK, BytesSent
<1>9. ParserOK'
  <2>1. starts'[handled' + 1] = NextEnd
    <3>1. handled' + 1 = handled + 2
      BY <1>1, <1>3
    <3> QED
      BY <1>3, <3>1 DEF NextEnd
  <2>2. o.ok => Unread' = Span(NextEnd, delivered)
    BY <1>2, <1>6 DEF Unread
  <2>3. Span(starts[handled + 1], delivered)' = Span(NextEnd, delivered)
    BY <1>3, <2>1 DEF Span
  <2>4. alive' => starts'[handled' + 1] <= delivered' /\ Unread' = Span(starts[handled + 1], delivered)'
    BY <1>1, <1>2, <1>3, <2>1, <2>2, <2>3
  <2>5. /\ alive' \in BOOLEAN /\ looping' \in BOOLEAN /\ (looping' => alive')
        /\ in' \in Buffers(StreamBytes) /\ IF looping' THEN Reading(in') ELSE InBounds(in')
    <3>1. CASE o.ok
      BY <1>2, <1>5, <1>6, <3>1
    <3>2. CASE ~o.ok
      BY <1>2, <1>5, <1>7, <3>2
    <3> QED
      BY <3>1, <3>2
  <2> QED
    BY <1>3, <2>4, <2>5 DEF ParserOK
<1>10. TablesOK'
  BY <1>2, <1>5 DEF TablesOK
<1>11. OpenOK'
  BY <1>2, <1>5 DEF OpenOK
<1>12. ListedOK'
  <2>1. ASSUME NEW n \in Nums, NEW id \in Ids
        PROVE  ListedAs(n, id, handled)' <=> ListedAs(n, id, h + 1)
    <3>1. handled' = h + 1
      BY <1>3, <1>4
    <3>2. LastNews(n, handled)' = LastNews(n, h + 1)
      BY <1>3, <3>1 DEF LastNews, IsNews
    <3> QED
      BY <1>3, <3>2 DEF ListedAs
  <2> QED
    BY <1>2, <1>5, <2>1 DEF ListedOK
<1>13. NumbersFree'
  BY <1>3 DEF NumbersFree, ListedAfter, LastNews, IsNews
<1> QED
  BY <1>8, <1>9, <1>10, <1>11, <1>12, <1>13

-----------------------------------------------------------------------------
(* The theorems.                                                             *)

\* The invariant holds at the start, and every step keeps it.
LEMMA InitIInv == Init => IInv
<1> SUFFICES ASSUME Init PROVE IInv
  OBVIOUS
<1>1. StreamOK
  BY DEF Init, StreamOK, BytesSent
<1>2. ParserOK
  <2>1. NewBuffer \in Buffers(StreamBytes) /\ InBounds(NewBuffer) /\ Kept(NewBuffer) = <<>>
    BY NewBufferKeeps
  <2>2. Span(0, 0) = <<>>
    <3>1. 1..(0 - 0) = {}
      OBVIOUS
    <3> QED
      BY <3>1 DEF Span
  <2>3. /\ in = NewBuffer /\ hasLength = FALSE /\ bodyLength = 0 /\ looping = FALSE /\ alive = TRUE
        /\ starts[handled + 1] = 0 /\ delivered = 0
    BY DEF Init
  <2>4. Unread = Span(starts[handled + 1], delivered)
    BY <2>1, <2>2, <2>3 DEF Unread
  <2>5. starts[handled + 1] <= delivered /\ ~hasLength /\ ~looping
    BY <2>3
  <2>6. in \in Buffers(StreamBytes) /\ InBounds(in)
    BY <2>1, <2>3
  <2>7. hasLength \in BOOLEAN /\ looping \in BOOLEAN /\ alive \in BOOLEAN
    BY <2>3
  <2> QED
    BY <2>3, <2>4, <2>5, <2>6, <2>7 DEF ParserOK
<1>3. TablesOK /\ Content(table) = {} /\ Content(iports) = {}
  <2>1. ASSUME NEW K, NEW V
        PROVE  NewTable \in Tables(K, V) /\ Good(NewTable) /\ Content(NewTable) = {}
    <3>1. /\ NewTable \in Tables(K, V) /\ Sound(NewTable) /\ Content(NewTable) = {}
          /\ NewTable.numKeys = 0
      BY NewTableContent
    <3>2. Keys(NewTable) = {}
      BY <3>1, KeysOfContent
    <3> QED
      BY <3>1, <3>2, FS_EmptySet DEF Good
  <2> QED
    BY <2>1 DEF Init, TablesOK
<1>4. ListedOK /\ OpenOK
  <2>1. \A n \in Nums : LastNews(n, handled) = {}
    BY DEF Init, LastNews
  <2> QED
    BY <1>3, <2>1 DEF ListedOK, OpenOK, ListedAs
<1>5. NumbersFree
  BY DEF Init, NumbersFree
<1> QED
  BY <1>1, <1>2, <1>3, <1>4, <1>5 DEF IInv

\* One lemma for each action.
LEMMA NextIInv == IInv /\ [Next]_vars => IInv'
<1> SUFFICES ASSUME IInv, [Next]_vars PROVE IInv'
  OBVIOUS
<1>1. CASE \E packet \in Packets : Sends(packet)
  BY <1>1, SendsKeeps
<1>2. CASE \E n \in 1..BytesSent : OnRecv(n)
  BY <1>2, OnRecvKeeps
<1>3. CASE \E id \in Ids : InspectorEnds(id)
  BY <1>3, InspectorEndsKeeps
<1>4. CASE RecvLength
  BY <1>4, RecvLengthKeeps
<1>5. CASE RecvPacket
  BY <1>5, RecvPacketKeeps
<1>6. CASE RecvMore
  BY <1>6, RecvMoreKeeps
<1>7. CASE UNCHANGED vars
  <2>1. UNCHANGED <<in, hasLength, bodyLength, looping, table, iports, alive, sent, starts,
                    delivered, handled>>
    BY <1>7 DEF vars, parser
  <2>2. StreamOK'
    BY <2>1 DEF IInv, StreamOK, BytesSent
  <2>3. Unread' = Unread /\ Span(starts[handled + 1], delivered)' = Span(starts[handled + 1], delivered)
    BY <2>1 DEF Unread, Span
  <2>4. ParserOK'
    BY <2>1, <2>3 DEF IInv, ParserOK
  <2>5. TablesOK' /\ ListedOK' /\ NumbersFree' /\ OpenOK'
    BY <2>1, TablesStay DEF IInv
  <2> QED
    BY <2>2, <2>4, <2>5 DEF IInv
<1> QED
  BY <1>1, <1>2, <1>3, <1>4, <1>5, <1>6, <1>7 DEF Next

\* The inductive invariant holds in every state.
THEOREM Invariant == Spec => []IInv
<1>1. Init => IInv
  BY InitIInv
<1>2. IInv /\ [Next]_vars => IInv'
  BY NextIInv
<1> QED
  BY <1>1, <1>2, PTL DEF Spec

\* The types of the state, which the invariant gives.
THEOREM TypeCorrect == Spec => []TypeOK
<1>1. IInv => TypeOK
  <2> SUFFICES ASSUME IInv PROVE TypeOK
    OBVIOUS
  <2> USE DEF IInv
  <2>1. {hasLength, alive, looping} \subseteq BOOLEAN
    BY DEF ParserOK
  <2>2. bodyLength \in Nat /\ hasLength = (bodyLength # 0)
    <3>1. CASE hasLength
      <4>1. handled < Len(sent) /\ bodyLength = sent[handled + 1].size
        BY <3>1 DEF ParserOK
      <4>2. handled + 1 \in 1..Len(sent) /\ sent \in Seq(Packets)
        BY <4>1 DEF StreamOK
      <4> DEFINE k == handled + 1
      <4>3. k \in 1..Len(sent)
        BY <4>2
      <4> HIDE DEF k
      <4>4. sent[k].size \in Nat /\ sent[k].size >= 1
        BY <4>2, <4>3, SentFacts
      <4>5. bodyLength \in Nat /\ bodyLength # 0
        BY <4>1, <4>4 DEF k
      <4> QED
        BY <2>1, <3>1, <4>5
    <3>2. CASE ~hasLength
      BY <2>1, <3>2 DEF ParserOK
    <3> QED
      BY <3>1, <3>2
  <2>3. InBounds(in)
    BY DEF ParserOK, Reading
  <2>4. Keys(table) \subseteq Nums /\ Keys(iports) \subseteq Ids
    <3>1. /\ Keys(table) = {p.key : p \in Content(table)}
          /\ \A p \in Content(table) : p.key \in Nums
      BY KeysOfContent, TableFacts DEF TablesOK
    <3>2. /\ Keys(iports) = {p.key : p \in Content(iports)}
          /\ \A p \in Content(iports) : p.key \in Ids
      BY KeysOfContent, TableFacts DEF TablesOK
    <3> QED
      BY <3>1, <3>2
  <2>5. sent \in Seq(Packets) /\ delivered \in 0..BytesSent /\ handled \in 0..Len(sent)
    BY StartsFacts DEF StreamOK
  <2> QED
    BY <2>1, <2>2, <2>3, <2>4, <2>5 DEF TypeOK
<1> QED
  BY <1>1, Invariant, PTL

\* The table of numbers is what usbmuxd lists, and both tables keep their form: no
\* collision in a bucket and no removal loses an entry or leaves an old one.
THEOREM Listed == Spec => []TableIsListed
<1>1. IInv => TableIsListed
  <2> SUFFICES ASSUME IInv PROVE TableIsListed
    OBVIOUS
  <2> USE DEF IInv
  <2>1. WellFormed(table) /\ WellFormed(iports)
    BY GoodIsWellFormed DEF TablesOK
  <2>2. ASSUME alive
        PROVE  /\ Keys(table) = {n \in DOMAIN ListedAfter(handled) : ListedAfter(handled)[n] # NULL}
               /\ \A n \in Keys(table) : Value(table, n) = ListedAfter(handled)[n]
    <3>1. PICK h \in Nat : h = handled
      BY DEF StreamOK
    <3>2. \A n \in Nums, id \in Ids :
            [key |-> n, value |-> id] \in Content(table) <=> ListedAs(n, id, h)
      BY <2>2, <3>1 DEF ListedOK
    <3>3. Keys(table) \subseteq Nums
      <4>1. /\ Keys(table) = {p.key : p \in Content(table)}
            /\ \A p \in Content(table) : p.key \in Nums
        BY KeysOfContent, TableFacts DEF TablesOK
      <4> QED
        BY <4>1
    <3>4. DOMAIN ListedAfter(h) \subseteq Nums
      BY DEF ListedAfter
    <3>5. ASSUME NEW n \in Nums
          PROVE  /\ \A id \in Ids : n \in Keys(table) /\ Value(table, n) = id <=>
                        n \in DOMAIN ListedAfter(h) /\ ListedAfter(h)[n] = id
                 /\ n \in Keys(table) => Value(table, n) \in Ids
      BY <3>1, <3>2, TableValue, ListedFacts
    <3>6. ASSUME NEW n \in DOMAIN ListedAfter(h) PROVE ListedAfter(h)[n] \in Ids \cup {NULL}
      <4>1. n \in Nums
        BY <3>4
      <4>2. ListedAs(n, ListedAfter(h)[n], h)
        BY <3>1, <4>1, ListedFacts
      <4>3. PICK i \in LastNews(n, h) : sent[i].kind = "attached" /\ sent[i].id = ListedAfter(h)[n]
        BY <4>2 DEF ListedAs
      <4>4. i \in 1..Len(sent) /\ sent \in Seq(Packets)
        BY <3>1 DEF LastNews, StreamOK
      <4> QED
        BY <4>3, <4>4, SentFacts
    <3>7. \A id \in Ids : id # NULL
      BY DevicesAssumption
    <3>8. ASSUME NEW n \in Keys(table)
          PROVE  n \in DOMAIN ListedAfter(h) /\ ListedAfter(h)[n] # NULL /\ Value(table, n) = ListedAfter(h)[n]
      BY <3>3, <3>5, <3>7
    <3>9. ASSUME NEW n \in DOMAIN ListedAfter(h), ListedAfter(h)[n] # NULL PROVE n \in Keys(table)
      BY <3>4, <3>5, <3>6, <3>9
    <3>10. Keys(table) = {n \in DOMAIN ListedAfter(h) : ListedAfter(h)[n] # NULL}
      BY <3>8, <3>9
    <3> QED
      BY <3>1, <3>8, <3>10
  <2> QED
    BY <2>1, <2>2 DEF TableIsListed
<1> QED
  BY <1>1, Invariant, PTL

\* An open port is of a device that is still listed.
THEOREM OpenPorts == Spec => []OpenIsListed
<1>1. IInv => OpenIsListed
  <2> SUFFICES ASSUME IInv, alive, NEW id \in Keys(iports), Value(iports, id) = "open"
               PROVE  \E n \in Keys(table) : Value(table, n) = id
    BY DEF OpenIsListed
  <2> USE DEF IInv
  <2>1. iports \in Tables(Ids, PortStates) /\ Sound(iports)
    BY DEF TablesOK, Good
  <2>2. PICK p \in Content(iports) : p.key = id
    BY <2>1, KeysOfContent
  <2>3. p \in Records(Ids, PortStates) /\ id \in Ids
    BY <2>1, <2>2, TableFacts
  <2>4. id \in DOMAIN Hash
    BY <2>3, DevicesAssumption
  <2>5. p.value = "open"
    BY <2>1, <2>2, <2>4, FindFacts
  <2>6. p = [key |-> id, value |-> "open"]
    BY <2>2, <2>3, <2>5 DEF Records
  <2>7. PICK n \in Nums : [key |-> n, value |-> id] \in Content(table)
    BY <2>2, <2>3, <2>6 DEF OpenOK
  <2>8. n \in Keys(table) /\ Value(table, n) = id
    BY <2>3, <2>7, TableValue
  <2> QED
    BY <2>8
<1> QED
  BY <1>1, Invariant, PTL

\* The steps of the abstract specification in the terms of this one.
LEMMA FramedTerms ==
    /\ Framed!BytesSent = BytesSent
    /\ \A m, n : Framed!Span(m, n) = Span(m, n)
    /\ \A k : Framed!SizeOf(k) = starts[k + 1] - starts[k]
    /\ \A n, s : Framed!WholeIn(n, s) <=>
                    n + 1 < Len(starts) /\ Len(s) >= starts[(n + 1) + 1] - starts[n + 1]
BY DEF Framed!BytesSent, BytesSent, Framed!Span, Span, Framed!SizeOf, Framed!WholeIn

\* dl_on_recv implements FramedStream: every step is one of its own or changes
\* nothing of it.
THEOREM FramedSpecHolds == Spec => FramedSpec
<1>1. Init => Framed!Init
  <2> SUFFICES ASSUME Init PROVE Framed!Init
    OBVIOUS
  <2>1. Kept(in) = <<>>
    <3>1. Kept(NewBuffer) = <<>>
      BY DEF Kept, NewBuffer
    <3> QED
      BY <3>1 DEF Init
  <2> QED
    BY <2>1 DEF Init, Framed!Init
<1>2. IInv /\ [Next]_vars => [Framed!Next]_(Framed!vars)
  <2> SUFFICES ASSUME IInv, [Next]_vars PROVE Framed!Next \/ UNCHANGED Framed!vars
    OBVIOUS
  <2> USE DEF IInv
  <2>1. ASSUME NEW packet \in Packets, Sends(packet) PROVE Framed!Send
    <3>1. /\ alive /\ starts' = Append(starts, BytesSent + packet.size)
          /\ UNCHANGED <<in, looping, alive, delivered, handled>>
      BY <2>1 DEF Sends, parser
    <3>2. packet.size \in {q.size : q \in Packets}
      OBVIOUS
    <3>3. Unread' = Unread
      BY <3>1 DEF Unread
    <3> QED
      BY <3>1, <3>2, <3>3, FramedTerms DEF Framed!Send, Unread
  <2>2. ASSUME NEW n \in 1..BytesSent, OnRecv(n) PROVE Framed!Arrive
    <3>1. /\ alive /\ ~looping /\ delivered + n <= BytesSent
          /\ delivered' = delivered + n /\ looping' = TRUE
          /\ UNCHANGED <<alive, starts, handled>>
      BY <2>2 DEF OnRecv
    <3>2. Input(in') = Kept(in) \o Span(delivered, delivered + n)
      BY <2>2, OnRecvKeeps
    <3>3. n \in 1..(BytesSent - delivered)
      <4>1. BytesSent \in Nat /\ delivered \in Nat
        BY StartsFacts DEF StreamOK
      <4> QED
        BY <3>1, <4>1
    <3> QED
      BY <3>1, <3>2, <3>3, FramedTerms DEF Framed!Arrive
  <2>3. ASSUME NEW id \in Ids, InspectorEnds(id) PROVE UNCHANGED Framed!vars
    BY <2>3 DEF InspectorEnds, parser, Framed!vars
  <2>4. ASSUME RecvLength PROVE UNCHANGED Framed!vars
    BY <2>4 DEF RecvLength, Framed!vars
  <2>5. ASSUME RecvPacket PROVE Framed!Handle
    <3> DEFINE s == Input(in)
               rest == SubSeq(s, NextSize + 1, Len(s))
               read == Advance(in, bodyLength)
    <3>1. /\ alive /\ handled \in Nat /\ handled < Len(sent)
          /\ bodyLength = NextSize /\ NextSize \in Nat /\ NextSize <= Len(s)
          /\ NextStart \in Nat /\ NextEnd = NextStart + NextSize
          /\ Reading(in) /\ in \in Buffers(StreamBytes)
      BY <2>5, RecvPacketFacts
    <3>2. /\ looping /\ handled' = handled + 1 /\ UNCHANGED <<starts, delivered>>
          /\ \E o \in Outcomes(At(Input(in))) :
                /\ in' = IF o.ok THEN read ELSE EndInput(read)
                /\ looping' = o.ok /\ alive' = o.ok
      BY <2>5 DEF RecvPacket
    <3>3. alive' \in BOOLEAN /\ looping' = alive' /\ (alive' => in' = read)
      <4>1. IInv'
        BY <2>5, RecvPacketKeeps
      <4> QED
        BY <3>2, <4>1 DEF ParserOK
    <3>4. Input(read) = rest
      <4> DEFINE n == bodyLength
      <4>1. n \in Nat /\ n <= Len(Input(in)) /\ n = NextSize
        BY <3>1
      <4> HIDE DEF n
      <4>2. Input(Advance(in, n)) = SubSeq(Input(in), n + 1, Len(Input(in)))
        BY <3>1, <4>1, AdvanceReads
      <4> QED
        BY <4>1, <4>2 DEF n
    <3>5. Framed!SizeOf(handled + 1) = NextSize
      <4>1. (handled + 1) + 1 = handled + 2
        BY <3>1
      <4>2. Framed!SizeOf(handled + 1) = NextEnd - NextStart
        BY <4>1, FramedTerms DEF NextEnd, NextStart
      <4> QED
        BY <3>1, <4>2
    <3>6. Framed!WholeIn(handled, s)
      <4>1. handled + 1 < Len(starts)
        BY <3>1 DEF StreamOK
      <4> QED
        BY <3>1, <3>5, <4>1 DEF Framed!WholeIn
    <3>7. Unread = s /\ alive = TRUE /\ looping = TRUE
      BY <3>1, <3>2 DEF Unread, ParserOK
    <3> HIDE DEF s, rest, read
    <3>8. rest = SubSeq(s, Framed!SizeOf(handled + 1) + 1, Len(s))
      BY <3>5 DEF rest
    <3>9. CASE alive'
      <4>1. alive' = TRUE /\ looping' = TRUE /\ Unread' = rest
        BY <3>3, <3>4, <3>9 DEF Unread
      <4> QED
        BY <3>2, <3>6, <3>7, <3>8, <4>1 DEF Framed!Handle, Unread
    <3>10. CASE ~alive'
      <4>1. alive' = FALSE /\ looping' = FALSE /\ Unread' = <<>>
        BY <3>3, <3>10 DEF Unread
      <4> QED
        BY <3>2, <3>6, <3>7, <3>8, <4>1 DEF Framed!Handle, Unread
    <3> QED
      BY <3>9, <3>10
  <2>6. ASSUME RecvMore PROVE Framed!Wait
    <3>1. /\ looping /\ looping' = FALSE /\ alive
          /\ IF hasLength THEN ~Complete(Input(in)) ELSE Len(Input(in)) < LengthBytes
          /\ UNCHANGED <<starts, delivered, handled, alive>>
      BY <2>6 DEF RecvMore, ParserOK
    <3>2. Kept(in') = Input(in)
      BY <2>6, RecvMoreKeeps
    <3>3. Len(Input(in)) \in Nat
      BY <3>1, InputFacts DEF ParserOK
    <3>4. ~Framed!WholeIn(handled, Input(in))
      <4> SUFFICES ASSUME handled + 1 < Len(starts) PROVE Len(Input(in)) < Framed!SizeOf(handled + 1)
        <5>1. Framed!SizeOf(handled + 1) \in Int \/ ~(handled + 1 < Len(starts))
          <6>1. SUFFICES ASSUME handled + 1 < Len(starts) PROVE Framed!SizeOf(handled + 1) \in Int
            OBVIOUS
          <6>2. handled + 1 \in 1..(Len(sent) + 1) /\ (handled + 1) + 1 \in 1..(Len(sent) + 1)
            BY <6>1 DEF StreamOK
          <6>3. starts[handled + 1] \in Nat /\ starts[(handled + 1) + 1] \in Nat
            BY <6>2, StartsFacts
          <6> QED
            BY <6>3, FramedTerms
        <5> QED
          BY <3>3, <5>1 DEF Framed!WholeIn
      <4> DEFINE k == handled + 1
      <4>1. k \in 1..Len(sent) /\ sent \in Seq(Packets)
        BY DEF StreamOK
      <4>2. starts[k + 1] = starts[k] + sent[k].size /\ starts[k] \in Nat
        <5>1. k \in 1..(Len(sent) + 1)
          BY <4>1
        <5> HIDE DEF k
        <5> QED
          BY <4>1, <5>1, StartsFacts DEF StreamOK
      <4> HIDE DEF k
      <4>3. sent[k].size \in Nat /\ sent[k].size >= LengthBytes
        BY <4>1, SentFacts
      <4>4. Framed!SizeOf(k) = sent[k].size
        BY <4>2, <4>3, FramedTerms
      <4>5. Len(Input(in)) < sent[k].size
        <5>1. CASE hasLength
          <6>1. bodyLength = sent[k].size
            BY <5>1 DEF ParserOK, k
          <6> QED
            BY <3>1, <3>3, <4>3, <5>1, <6>1 DEF Complete
        <5>2. CASE ~hasLength
          BY <3>1, <3>3, <4>3, <5>2, SizesAssumption
        <5> QED
          BY <5>1, <5>2
      <4> QED
        BY <4>4, <4>5 DEF k
    <3> QED
      BY <3>1, <3>2, <3>4 DEF Framed!Wait
  <2>7. CASE UNCHANGED vars
    BY <2>7 DEF vars, parser, Framed!vars
  <2> QED
    BY <2>1, <2>2, <2>3, <2>4, <2>5, <2>6, <2>7 DEF Next, Framed!Next
<1> QED
  BY <1>1, <1>2, Invariant, PTL DEF Spec, FramedSpec, Framed!Spec

=============================================================================
