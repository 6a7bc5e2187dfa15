------------------------- MODULE ExtendibleHashTable -------------------------
(***************************************************************************)
(* The extendible hash table of include/common/extendible_hash_table.hpp.  *)
(*                                                                         *)
(* A directory of 2^global_depth_ pointers leads to buckets of at most     *)
(* BucketSize pairs.  Insert splits a full bucket, and doubles the         *)
(* directory first when the bucket is as deep as the directory, until the  *)
(* pair fits.  Every public function holds latch_ for its whole body, so a *)
(* call is a Begin, the rounds of the while loop, and the step that        *)
(* answers; `call` is both the call and the holder of the latch.           *)
(*                                                                         *)
(* A hash value, and with it an index of the directory, is the function    *)
(* from bit positions, the lowest first, to bits: hash & ((1 << d) - 1) is *)
(* Low(hash, d), i % 2^d is Low(i, d) and (i >> d) & 1 is i[d + 1].        *)
(* A bucket is named by a number; the two halves of a split are the name   *)
(* of the bucket they replace, which nothing points to any more, and a     *)
(* fresh one.  The order of the pairs in a bucket has no effect and is     *)
(* left out.                                                               *)
(***************************************************************************)
EXTENDS Naturals, FiniteSets

CONSTANTS
  Keys, Values,
  Absent,       \* no value, no call
  BucketSize,   \* bucket_size_
  Width,        \* the bits of a hash value the model keeps
  Hash          \* std::hash: a sequence of Width bits for every key

Bit == {0, 1}

ASSUME AbsentAssumption == Absent \notin Values
ASSUME BucketSizeAssumption == BucketSize \in Nat \ {0}
ASSUME WidthAssumption == Width \in Nat
ASSUME HashAssumption == Hash \in [Keys -> [1..Width -> Bit]]

\* The loop of Insert ends only because the keys that agree on every bit of
\* their hash fit in one bucket (the code has no other way out).
ASSUME SpreadAssumption ==
  \A b \in [1..Width -> Bit] :
    Cardinality({k \in Keys : Hash[k] = b}) <= BucketSize

VARIABLES
  global_depth_,  \* the directory has 2^global_depth_ entries
  dir_,           \* index -> name of a bucket
  bucket,         \* name -> [depth_, list_], list_ a set of pairs
  num_buckets_,
  call,
  answer

vars == <<global_depth_, dir_, bucket, num_buckets_, call, answer>>

NULL == 0         \* nullptr in a directory that has just been resized

Low(bits, d) == [i \in 1..d |-> bits[i]]
Indexes(d) == [1..d -> Bit]

IndexOf(k) == Low(Hash[k], global_depth_)

Calls == [op : {"Insert"}, key : Keys, value : Values]
         \cup [op : {"Find", "Remove"}, key : Keys]

Init ==
  /\ global_depth_ = 0
  /\ dir_ = [i \in Indexes(0) |-> 1]
  /\ bucket = [b \in {1} |-> [depth_ |-> 0, list_ |-> {}]]
  /\ num_buckets_ = 1
  /\ call = Absent
  /\ answer = Absent

Begin(c) ==
  /\ call = Absent
  /\ call' = c
  /\ UNCHANGED <<global_depth_, dir_, bucket, num_buckets_, answer>>

Home(k) == dir_[IndexOf(k)]
Matches(list, k) == {p \in list : p[1] = k}
\* Mutant: a bucket takes one pair too many.
IsFullLate(list) == Cardinality(list) > BucketSize

IsFull(list) == Cardinality(list) = BucketSize

\* Bucket::Insert: the pair replaces one with the same key, or is added.
CanInsert(list, k) == Matches(list, k) # {} \/ ~IsFull(list)
BucketInsert(list, k, v) == (list \ Matches(list, k)) \cup {<<k, v>>}

\* Mutant: the latch is kept.
ReturnLatched(a) ==
  /\ answer' = a
  /\ UNCHANGED <<global_depth_, dir_, num_buckets_, call>>

Return(a) ==
  /\ call' = Absent
  /\ answer' = a
  /\ UNCHANGED <<global_depth_, dir_, num_buckets_>>

Insert ==
  /\ call # Absent /\ call.op = "Insert"
  /\ LET b == Home(call.key)
     IN  /\ CanInsert(bucket[b].list_, call.key)
         /\ bucket' = [bucket EXCEPT ![b].list_ = BucketInsert(@, call.key, call.value)]
  /\ Return(TRUE)

\* Find answers with the value, or with Absent where the code returns false.
ValueIn(list, k) == IF Matches(list, k) = {} THEN Absent
                    ELSE (CHOOSE p \in list : p[1] = k)[2]

Find ==
  /\ call # Absent /\ call.op = "Find"
  /\ Return(ValueIn(bucket[Home(call.key)].list_, call.key))
  /\ UNCHANGED bucket

Remove ==
  /\ call # Absent /\ call.op = "Remove"
  /\ LET b == Home(call.key)
     IN  /\ bucket' = [bucket EXCEPT ![b].list_ = @ \ Matches(@, call.key)]
         /\ Return(Matches(bucket[b].list_, call.key) # {})

(***************************************************************************)
(* One round of Insert's loop on a full bucket.  Resized(b) is the         *)
(* directory after the optional doubling, Redistributed what               *)
(* RedistributeBucket makes of it, Filled the loop that gives the new      *)
(* entries the bucket of the entry they were copied from.                  *)
(***************************************************************************)
DepthAfter(b) == IF bucket[b].depth_ = global_depth_ THEN global_depth_ + 1
                 ELSE global_depth_

Resized(b) == [i \in Indexes(DepthAfter(b)) |->
                 IF DepthAfter(b) > global_depth_ /\ i[DepthAfter(b)] = 1 THEN NULL
                 ELSE dir_[Low(i, global_depth_)]]

\* RedistributeBucket, the directory: every entry that agrees with the index
\* on the old depth and leads to the bucket, or nowhere, is given one of the
\* two new buckets by the next bit.
Redistributed(dir, b, index, even, odd) ==
  LET old_depth == bucket[b].depth_
  IN  [i \in DOMAIN dir |->
         IF Low(i, old_depth) = Low(index, old_depth) /\ dir[i] \in {NULL, b}
         THEN IF i[old_depth + 1] = 0 THEN even ELSE odd
         ELSE dir[i]]

\* Mutant: the entries of the new half are left null.
FilledNot(dir) == dir

Filled(dir) == [i \in DOMAIN dir |->
                  IF dir[i] = NULL
                  THEN dir[[j \in DOMAIN i |-> IF j = global_depth_ + 1 THEN 0 ELSE i[j]]]
                  ELSE dir[i]]

\* Mutant: only the first half of the pairs is inserted again.
ShareEvenOnly(dir, b, half) ==
  {p \in bucket[b].list_ : half = b /\ dir[Low(Hash[p[1]], DepthAfter(b))] = half}

\* RedistributeBucket, the pairs: each goes where IndexOf now leads.
Share(dir, b, half) ==
  {p \in bucket[b].list_ : dir[Low(Hash[p[1]], DepthAfter(b))] = half}

\* Mutant: IncrementDepth is forgotten.
DeeperNot(b) == bucket[b].depth_

Deeper(b) == bucket[b].depth_ + 1

Split ==
  /\ call # Absent /\ call.op = "Insert"
  /\ LET b == Home(call.key)
         odd == Cardinality(DOMAIN bucket) + 1
         dir == Redistributed(Resized(b), b, IndexOf(call.key), b, odd)
         half(h) == [depth_ |-> Deeper(b), list_ |-> Share(dir, b, h)]
     IN  /\ ~CanInsert(bucket[b].list_, call.key)
         /\ DepthAfter(b) <= Width
         /\ global_depth_' = DepthAfter(b)
         /\ dir_' = Filled(dir)
         /\ bucket' = [x \in DOMAIN bucket \cup {odd} |->
                         IF x \in {b, odd} THEN half(x) ELSE bucket[x]]
         /\ num_buckets_' = num_buckets_ + 1
  /\ UNCHANGED <<call, answer>>

Next == (\E c \in Calls : Begin(c)) \/ Insert \/ Find \/ Remove \/ Split

Spec == Init /\ [][Next]_vars

\* The thread that holds the latch runs on until its call returns.
FairSpec == Spec /\ WF_vars(Insert \/ Find \/ Remove \/ Split)

-----------------------------------------------------------------------------
(***************************************************************************)
(* Properties.                                                             *)
(***************************************************************************)
Pairs == Keys \X Values

\* Every variable holds a value of its type: the directory has one entry per
\* index of global_depth_ bits and none of them is left null.
TypeOK ==
  /\ global_depth_ \in 0..Width
  /\ num_buckets_ \in Nat
  /\ DOMAIN bucket = 1..num_buckets_
  /\ \A b \in DOMAIN bucket :
       bucket[b] \in [depth_ : 0..global_depth_, list_ : SUBSET Pairs]
  /\ dir_ \in [Indexes(global_depth_) -> DOMAIN bucket]
  /\ call \in Calls \cup {Absent}
  /\ answer \in Values \cup BOOLEAN \cup {Absent}

\* Two entries of the directory lead to the same bucket exactly when they
\* agree on the lowest depth_ bits, whatever sequence of splits and doublings
\* RedistributeBucket and the copying loop went through.
EntriesShareByDepth ==
  \A i, j \in DOMAIN dir_ :
    dir_[i] = dir_[j] <=> LET d == bucket[dir_[i]].depth_ IN Low(i, d) = Low(j, d)

\* A bucket holds at most bucket_size_ pairs, one for each key, and only pairs
\* that IndexOf finds there: the ones a split moves are not left behind, and
\* num_buckets_ counts the buckets the directory reaches.
PairsWhereLookedFor ==
  /\ {dir_[i] : i \in DOMAIN dir_} = 1..num_buckets_
  /\ \A b \in DOMAIN bucket :
       /\ Cardinality(bucket[b].list_) <= BucketSize
       /\ \A p \in bucket[b].list_ : Home(p[1]) = b /\ Matches(bucket[b].list_, p[1]) = {p}

\* The pairs as a caller sees them: what Find would return for every key.
Contents == [k \in Keys |-> ValueIn(bucket[Home(k)].list_, k)]

Map == INSTANCE KeyValueMap WITH map <- Contents

\* The table is a map: a split moves pairs and changes no answer, Insert sets
\* exactly one key, Remove forgets exactly one.
ImplementsMap == Map!Spec

\* A call returns: Insert's loop of splits ends when the hashes spread.
CallsReturn == (call # Absent) ~> (call = Absent)
=============================================================================
