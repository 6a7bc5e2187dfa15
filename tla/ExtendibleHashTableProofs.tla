---------------------- MODULE ExtendibleHashTableProofs ----------------------
(***************************************************************************)
(* Proofs about module ExtendibleHashTable, for every set of keys, every   *)
(* hash function, every width and every size of the buckets: the directory *)
(* and the buckets stay consistent, and the table is a map (KeyValueMap).  *)
(*                                                                         *)
(* The round of Insert's loop that splits a bucket is the hard step: the   *)
(* directory is resized, redistributed and filled.  Lemma SplitDir says in *)
(* one formula what comes out of the three; the rest follows from it.      *)
(***************************************************************************)
EXTENDS ExtendibleHashTable, FiniteSetTheorems, TLAPS

\* The inductive invariant: the run's invariants, and finite buckets, without
\* which their Cardinality would say nothing.
IInv ==
  /\ TypeOK
  /\ EntriesShareByDepth
  /\ PairsWhereLookedFor
  /\ \A b \in DOMAIN bucket : IsFiniteSet(bucket[b].list_)

-----------------------------------------------------------------------------
(* Bits                                                                    *)

\* The lowest d bits of e >= d bits are d bits.
LEMMA LowType ==
  ASSUME NEW e \in Nat, NEW d \in 0..e, NEW i \in Indexes(e)
  PROVE  Low(i, d) \in Indexes(d)
BY DEF Low, Indexes

\* The lowest bits of the lowest bits.
LEMMA LowLow ==
  ASSUME NEW e \in Nat, NEW d \in 0..e, NEW i
  PROVE  Low(Low(i, e), d) = Low(i, d)
BY DEF Low

\* All bits of an index.
LEMMA LowAll ==
  ASSUME NEW d \in Nat, NEW i \in Indexes(d)
  PROVE  Low(i, d) = i
BY DEF Low, Indexes

\* Equal lowest bits, bit by bit.
LEMMA LowEqual ==
  ASSUME NEW d \in Nat, NEW i, NEW j
  PROVE  Low(i, d) = Low(j, d) <=> \A k \in 1..d : i[k] = j[k]
<1>1. ASSUME Low(i, d) = Low(j, d), NEW k \in 1..d PROVE i[k] = j[k]
  <2>1. Low(i, d)[k] = i[k] /\ Low(j, d)[k] = j[k]
    BY DEF Low
  <2> QED
    BY <1>1, <2>1
<1>2. ASSUME \A k \in 1..d : i[k] = j[k] PROVE Low(i, d) = Low(j, d)
  BY <1>2 DEF Low
<1> QED
  BY <1>1, <1>2

\* Fewer bits agree when more do.
LEMMA LowFewer ==
  ASSUME NEW e \in Nat, NEW d \in 0..e, NEW i, NEW j, Low(i, e) = Low(j, e)
  PROVE  Low(i, d) = Low(j, d)
BY LowLow

\* Numbers that agree in d bits and in the next one agree in d + 1 bits.
LEMMA LowNextBit ==
  ASSUME NEW d \in Nat, NEW i, NEW j
  PROVE  Low(i, d + 1) = Low(j, d + 1) <=> Low(i, d) = Low(j, d) /\ i[d + 1] = j[d + 1]
<1>1. Low(i, d + 1) = Low(j, d + 1) <=> \A k \in 1..(d + 1) : i[k] = j[k]
  BY LowEqual
<1>2. Low(i, d) = Low(j, d) <=> \A k \in 1..d : i[k] = j[k]
  BY LowEqual
<1> QED
  BY <1>1, <1>2

\* An index exists for every number of bits, with any lowest bits and any
\* one bit beyond them.
LEMMA LowExtend ==
  ASSUME NEW e \in Nat, NEW d \in 0..e, NEW i \in Indexes(d), NEW x \in Bit
  PROVE  \E j \in Indexes(e) : Low(j, d) = i /\ (d < e => j[d + 1] = x)
<1> DEFINE j == [k \in 1..e |-> IF k \in 1..d THEN i[k] ELSE x]
<1>1. j \in Indexes(e)
  BY DEF Indexes, Bit
<1>2. Low(j, d) = i
  BY DEF Low, Indexes
<1>3. d < e => j[d + 1] = x
  OBVIOUS
<1> QED
  BY <1>1, <1>2, <1>3

-----------------------------------------------------------------------------
(* Pairs                                                                   *)

\* A key with one pair in a bucket has the value of the pair.
LEMMA ValueOfPair ==
  ASSUME NEW list, NEW k, NEW p, Matches(list, k) = {p}
  PROVE  ValueIn(list, k) = p[2]
<1>1. p \in list /\ p[1] = k /\ \A q \in list : q[1] = k => q = p
  BY DEF Matches
<1>2. (CHOOSE q \in list : q[1] = k) = p
  BY <1>1
<1> QED
  BY <1>2 DEF ValueIn

\* In buckets with one pair for a key, equal pairs give equal values.
LEMMA SameMatches ==
  ASSUME NEW l, NEW m, NEW k, Matches(l, k) = Matches(m, k),
         \A p \in l : Matches(l, p[1]) = {p}
  PROVE  ValueIn(l, k) = ValueIn(m, k)
<1>1. CASE Matches(l, k) = {}
  BY <1>1 DEF ValueIn
<1>2. CASE Matches(l, k) # {}
  <2>1. PICK p : p \in Matches(l, k)
    BY <1>2
  <2>2. Matches(l, k) = {p}
    BY <2>1 DEF Matches
  <2>3. ValueIn(l, k) = p[2]
    BY <2>2, ValueOfPair
  <2>4. Matches(m, k) = {p}
    BY <2>2
  <2>5. ValueIn(m, k) = p[2]
    BY <2>4, ValueOfPair
  <2> QED
    BY <2>3, <2>5
<1> QED
  BY <1>1, <1>2

\* A bucket's value of a key is a value or Absent, and Absent only without a
\* pair.
LEMMA ValueType ==
  ASSUME NEW l \in SUBSET Pairs, NEW k, \A p \in l : Matches(l, p[1]) = {p}
  PROVE  /\ ValueIn(l, k) \in Values \cup {Absent}
         /\ ValueIn(l, k) # Absent <=> Matches(l, k) # {}
<1>1. CASE Matches(l, k) = {}
  BY <1>1 DEF ValueIn
<1>2. CASE Matches(l, k) # {}
  <2>1. PICK p : p \in Matches(l, k)
    BY <1>2
  <2>2. Matches(l, k) = {p} /\ p \in Pairs
    BY <2>1 DEF Matches
  <2>3. ValueIn(l, k) = p[2]
    BY <2>2, ValueOfPair
  <2> QED
    BY <1>2, <2>2, <2>3, AbsentAssumption DEF Pairs
<1> QED
  BY <1>1, <1>2

-----------------------------------------------------------------------------
(* The directory                                                           *)

\* The lowest bits of a hash value are an index.
LEMMA HashIndex ==
  ASSUME NEW k \in Keys, NEW d \in 0..Width
  PROVE  Low(Hash[k], d) \in Indexes(d)
<1>1. Hash[k] \in Indexes(Width)
  BY HashAssumption DEF Indexes
<1> QED
  BY <1>1, WidthAssumption, LowType

\* The numbers of bits in a split: the bucket's depth grows by one, and the
\* directory's as well when it would be too small.
LEMMA SplitDepths ==
  ASSUME IInv, NEW b \in DOMAIN bucket
  PROVE  /\ global_depth_ \in Nat /\ bucket[b].depth_ \in 0..global_depth_
         /\ DepthAfter(b) \in Nat /\ bucket[b].depth_ + 1 \in 1..DepthAfter(b)
         /\ global_depth_ \in 0..DepthAfter(b)
         /\ \/ DepthAfter(b) = global_depth_ /\ bucket[b].depth_ < global_depth_
            \/ DepthAfter(b) = global_depth_ + 1 /\ bucket[b].depth_ = global_depth_
<1>1. global_depth_ \in Nat /\ bucket[b].depth_ \in 0..global_depth_
  BY DEF IInv, TypeOK
<1> QED
  BY <1>1 DEF DepthAfter

\* What a bucket's entries are, after a split of bucket b: an entry leads
\* where it led, or its part that was copied did, except that the bit after
\* b's old depth chooses between b and the new bucket.
SplitEntry(i, b, odd) ==
  LET old == dir_[Low(i, global_depth_)]
  IN  IF old = b THEN IF i[bucket[b].depth_ + 1] = 0 THEN b ELSE odd ELSE old

\* The resized and redistributed directory, entry by entry.  An entry is still
\* null only in the new half, and where the old entry did not lead to b.
LEMMA RedistributedEntry ==
  ASSUME IInv, NEW index \in Indexes(global_depth_), NEW b, b = dir_[index], NEW odd \in Nat,
         NEW i \in Indexes(DepthAfter(b))
  PROVE  LET dir == Redistributed(Resized(b), b, index, b, odd)
         IN  /\ Low(i, global_depth_) \in Indexes(global_depth_)
             /\ DOMAIN dir = Indexes(DepthAfter(b))
             /\ \/ dir[i] = SplitEntry(i, b, odd)
                \/ /\ dir[i] = NULL /\ dir_[Low(i, global_depth_)] # b
                   /\ DepthAfter(b) = global_depth_ + 1 /\ i[DepthAfter(b)] = 1
<1> DEFINE D == global_depth_
           d == bucket[b].depth_
           E == DepthAfter(b)
           R == Resized(b)
           dir == Redistributed(R, b, index, b, odd)
           i0 == Low(i, D)
<1>1. b \in DOMAIN bucket /\ b # NULL
  BY DEF IInv, TypeOK, NULL
<1>2. /\ D \in Nat /\ d \in 0..D /\ E \in Nat /\ d + 1 \in 1..E /\ D \in 0..E
      /\ (E = D /\ d < D) \/ (E = D + 1 /\ d = D)
  BY <1>1, SplitDepths
<1>3. i0 \in Indexes(D)
  BY <1>2, LowType
<1>4. DOMAIN R = Indexes(E) /\ DOMAIN dir = Indexes(E)
  BY DEF Resized, Redistributed
<1>5. R[i] = IF E > D /\ i[E] = 1 THEN NULL ELSE dir_[i0]
  BY DEF Resized
<1>6. dir[i] = IF Low(i, d) = Low(index, d) /\ R[i] \in {NULL, b}
               THEN IF i[d + 1] = 0 THEN b ELSE odd
               ELSE R[i]
  BY <1>4 DEF Redistributed
<1>7. Low(i, d) = Low(i0, d)
  BY <1>2, LowLow
<1>8. dir_[i0] = b <=> Low(i, d) = Low(index, d)
  <2>1. dir_ \in [Indexes(D) -> DOMAIN bucket]
    BY DEF IInv, TypeOK
  <2>2. dir_[index] = dir_[i0] <=> LET e == bucket[dir_[index]].depth_ IN Low(index, e) = Low(i0, e)
    BY <1>3, <2>1 DEF IInv, EntriesShareByDepth
  <2> QED
    BY <1>7, <2>2
<1>9. SplitEntry(i, b, odd) = IF dir_[i0] = b THEN IF i[d + 1] = 0 THEN b ELSE odd ELSE dir_[i0]
  BY DEF SplitEntry
<1>10. dir_[i0] # NULL
  BY <1>3 DEF IInv, TypeOK, NULL
<1> HIDE DEF D, d, E, R, dir, i0
<1>11. CASE dir_[i0] = b
  <2>1. R[i] \in {NULL, b}
    BY <1>5, <1>11
  <2>2. dir[i] = SplitEntry(i, b, odd)
    BY <1>6, <1>8, <1>9, <1>11, <2>1
  <2> QED
    BY <1>3, <1>4, <2>2 DEF D, d, E, R, dir, i0
<1>12. CASE dir_[i0] # b
  <2>1. dir[i] = R[i]
    BY <1>6, <1>8, <1>12
  <2>2. E > D /\ i[E] = 1 => E = D + 1 /\ dir[i] = NULL
    BY <1>2, <1>5, <2>1
  <2>3. ~(E > D /\ i[E] = 1) => dir[i] = SplitEntry(i, b, odd)
    BY <1>5, <1>9, <1>12, <2>1
  <2> QED
    BY <1>3, <1>4, <1>12, <2>2, <2>3 DEF D, d, E, R, dir, i0
<1> QED
  BY <1>11, <1>12
\* The loop that fills the new half completes the directory.
LEMMA FilledDir ==
  ASSUME IInv, NEW index \in Indexes(global_depth_), NEW b, b = dir_[index], NEW odd \in Nat \ {0}
  PROVE  Filled(Redistributed(Resized(b), b, index, b, odd))
           = [i \in Indexes(DepthAfter(b)) |-> SplitEntry(i, b, odd)]
<1> DEFINE D == global_depth_
           E == DepthAfter(b)
           dir == Redistributed(Resized(b), b, index, b, odd)
           S(i) == SplitEntry(i, b, odd)
           Flip(i) == [j \in DOMAIN i |-> IF j = D + 1 THEN 0 ELSE i[j]]
<1>1. b \in DOMAIN bucket /\ b # NULL
  BY DEF IInv, TypeOK, NULL
<1>2. D \in Nat /\ E \in Nat /\ D \in 0..E
  BY <1>1, SplitDepths
<1>3. DOMAIN dir = Indexes(E)
  BY DEF Redistributed, Resized
<1>4. \A i \in Indexes(E) : /\ Low(i, D) \in Indexes(D)
                            /\ \/ dir[i] = S(i)
                               \/ dir[i] = NULL /\ dir_[Low(i, D)] # b /\ E = D + 1 /\ i[E] = 1
  BY RedistributedEntry
<1>5. \A i \in Indexes(E) : S(i) # NULL
  BY <1>1, <1>4 DEF SplitEntry, IInv, TypeOK, NULL
<1>6. ASSUME NEW i \in Indexes(E), dir[i] = NULL
      PROVE  dir[Flip(i)] = S(i)
  <2>1. dir_[Low(i, D)] # b /\ E = D + 1
    BY <1>4, <1>5, <1>6
  <2>2. Flip(i) \in Indexes(E) /\ Flip(i)[E] = 0
    BY <1>2, <2>1 DEF Indexes, Bit
  <2>3. Low(Flip(i), D) = Low(i, D)
    BY <1>2, <2>1 DEF Indexes, Low
  <2>4. dir[Flip(i)] = S(Flip(i))
    BY <1>4, <2>2
  <2>5. S(Flip(i)) = S(i)
    BY <2>1, <2>3 DEF SplitEntry
  <2> QED
    BY <2>4, <2>5
<1>7. \A i \in Indexes(E) : (IF dir[i] = NULL THEN dir[Flip(i)] ELSE dir[i]) = S(i)
  BY <1>4, <1>6
<1>8. Filled(dir) = [i \in Indexes(E) |-> IF dir[i] = NULL THEN dir[Flip(i)] ELSE dir[i]]
  BY <1>3 DEF Filled
<1> HIDE DEF dir, S, Flip, E
<1>9. Filled(dir) = [i \in Indexes(E) |-> S(i)]
  BY <1>7, <1>8
<1> QED
  BY <1>9 DEF dir, S, E

\* The call that is served has a key, and Home leads to a bucket.
LEMMA HomeOfCall ==
  ASSUME IInv, NEW k \in Keys
  PROVE  IndexOf(k) \in Indexes(global_depth_) /\ Home(k) \in 1..num_buckets_ /\ Home(k) \in DOMAIN bucket
BY HashIndex DEF IInv, TypeOK, IndexOf, Home

\* The pairs of b that belong to bucket x after the split.
SplitKept(b, odd, x) ==
  {p \in bucket[b].list_ : SplitEntry(Low(Hash[p[1]], DepthAfter(b)), b, odd) = x}

\* A round of Insert's loop, resize, redistribution and fill together, in terms of
\* the state before it.
LEMMA SplitDir ==
  ASSUME IInv, Split
  PROVE  LET b == Home(call.key)
             odd == num_buckets_ + 1
         IN  /\ call.key \in Keys /\ b \in 1..num_buckets_ /\ DepthAfter(b) \in 0..Width
             /\ global_depth_' = DepthAfter(b)
             /\ dir_' = [i \in Indexes(DepthAfter(b)) |-> SplitEntry(i, b, odd)]
             /\ bucket' = [x \in 1..odd |->
                             IF x \in {b, odd}
                             THEN [depth_ |-> bucket[b].depth_ + 1, list_ |-> SplitKept(b, odd, x)]
                             ELSE bucket[x]]
             /\ num_buckets_' = odd
             /\ UNCHANGED <<call, answer>>
<1> DEFINE b == Home(call.key)
           odd == num_buckets_ + 1
           index == IndexOf(call.key)
           dir == Redistributed(Resized(b), b, index, b, odd)
           E == DepthAfter(b)
<1>1. call.key \in Keys
  BY DEF Split, IInv, TypeOK, Calls
<1>2. index \in Indexes(global_depth_) /\ b = dir_[index] /\ b \in 1..num_buckets_ /\ b \in DOMAIN bucket
  BY <1>1, HomeOfCall DEF Home
<1>3. num_buckets_ \in Nat /\ DOMAIN bucket = 1..num_buckets_ /\ dir_ \in [Indexes(global_depth_) -> DOMAIN bucket]
  BY DEF IInv, TypeOK
<1>4. Cardinality(DOMAIN bucket) + 1 = odd
  <2>1. 1 \in Int /\ num_buckets_ \in Int
    BY <1>3
  <2>2. Cardinality(1..num_buckets_) = IF 1 > num_buckets_ THEN 0 ELSE num_buckets_ - 1 + 1
    BY <2>1, FS_Interval
  <2> QED
    BY <1>3, <2>2
<1>5. E \in Nat /\ E <= Width /\ E \in 0..Width
  BY <1>2, SplitDepths, WidthAssumption DEF Split
<1>6. Filled(dir) = [i \in Indexes(E) |-> SplitEntry(i, b, odd)]
  BY <1>2, <1>3, FilledDir
<1>7. ASSUME NEW p \in bucket[b].list_
      PROVE  dir[Low(Hash[p[1]], E)] = SplitEntry(Low(Hash[p[1]], E), b, odd)
  <2>1. p[1] \in Keys /\ dir_[Low(Hash[p[1]], global_depth_)] = b
    BY <1>2, <1>7 DEF IInv, TypeOK, PairsWhereLookedFor, Home, IndexOf, Pairs
  <2>2. Low(Hash[p[1]], E) \in Indexes(E)
    BY <1>5, <2>1, HashIndex
  <2>3. Low(Low(Hash[p[1]], E), global_depth_) = Low(Hash[p[1]], global_depth_)
    BY <1>2, <1>5, SplitDepths, LowLow
  <2> QED
    BY <1>2, <1>3, <2>1, <2>2, <2>3, RedistributedEntry
<1>8. \A x : Share(dir, b, x) = SplitKept(b, odd, x)
  BY <1>7 DEF Share, SplitKept
<1>9. /\ global_depth_' = E /\ dir_' = Filled(dir) /\ num_buckets_' = odd /\ UNCHANGED <<call, answer>>
      /\ bucket' = [x \in DOMAIN bucket \cup {odd} |->
                      IF x \in {b, odd} THEN [depth_ |-> Deeper(b), list_ |-> Share(dir, b, x)]
                      ELSE bucket[x]]
  BY <1>4 DEF Split
<1>10. DOMAIN bucket \cup {odd} = 1..odd
  BY <1>3
<1> HIDE DEF dir, b, odd
<1>11. bucket' = [x \in 1..odd |->
                    IF x \in {b, odd}
                    THEN [depth_ |-> bucket[b].depth_ + 1, list_ |-> SplitKept(b, odd, x)]
                    ELSE bucket[x]]
  BY <1>8, <1>9, <1>10 DEF Deeper
<1> QED
  BY <1>1, <1>2, <1>5, <1>6, <1>9, <1>11 DEF b, odd
-----------------------------------------------------------------------------
(* Split                                                                   *)

\* A split leaves a consistent table.
LEMMA SplitInv == IInv /\ Split => IInv'
<1> SUFFICES ASSUME IInv, Split PROVE IInv'
  OBVIOUS
<1> DEFINE b == Home(call.key)
           odd == num_buckets_ + 1
           D == global_depth_
           d == bucket[b].depth_
           E == DepthAfter(b)
           S(i) == SplitEntry(i, b, odd)
           Kept(x) == SplitKept(b, odd, x)
<1>1. /\ call.key \in Keys /\ b \in 1..num_buckets_ /\ E \in 0..Width
      /\ global_depth_' = E
      /\ dir_' = [i \in Indexes(E) |-> S(i)]
      /\ bucket' = [x \in 1..odd |-> IF x \in {b, odd} THEN [depth_ |-> d + 1, list_ |-> Kept(x)]
                                     ELSE bucket[x]]
      /\ num_buckets_' = odd
      /\ UNCHANGED <<call, answer>>
  BY SplitDir
<1>2. /\ num_buckets_ \in Nat /\ DOMAIN bucket = 1..num_buckets_ /\ dir_ \in [Indexes(D) -> 1..num_buckets_]
      /\ \A x \in 1..num_buckets_ : bucket[x] \in [depth_ : 0..D, list_ : SUBSET Pairs]
  BY DEF IInv, TypeOK
<1>3. /\ D \in Nat /\ d \in 0..D /\ E \in Nat /\ d + 1 \in 1..E /\ D \in 0..E
  BY <1>1, <1>2, SplitDepths
<1>4. b \in Nat /\ odd \in Nat /\ odd # b /\ odd # NULL /\ odd \notin 1..num_buckets_
  BY <1>1, <1>2 DEF NULL
<1>5. \A i \in Indexes(E) :
        /\ Low(i, D) \in Indexes(D) /\ dir_[Low(i, D)] \in 1..num_buckets_
        /\ S(i) = IF dir_[Low(i, D)] = b THEN IF i[d + 1] = 0 THEN b ELSE odd ELSE dir_[Low(i, D)]
        /\ S(i) \in 1..odd
        /\ S(i) \in {b, odd} <=> dir_[Low(i, D)] = b
  <2> SUFFICES ASSUME NEW i \in Indexes(E)
               PROVE  /\ Low(i, D) \in Indexes(D) /\ dir_[Low(i, D)] \in 1..num_buckets_
                      /\ S(i) = IF dir_[Low(i, D)] = b THEN IF i[d + 1] = 0 THEN b ELSE odd ELSE dir_[Low(i, D)]
                      /\ S(i) \in 1..odd
                      /\ S(i) \in {b, odd} <=> dir_[Low(i, D)] = b
    OBVIOUS
  <2>1. Low(i, D) \in Indexes(D)
    BY <1>3, LowType
  <2>2. S(i) = IF dir_[Low(i, D)] = b THEN IF i[d + 1] = 0 THEN b ELSE odd ELSE dir_[Low(i, D)]
    BY DEF SplitEntry
  <2> HIDE DEF S
  <2> QED
    BY <1>1, <1>2, <1>4, <2>1, <2>2
<1>6. \A x : Kept(x) \subseteq bucket[b].list_
  BY DEF SplitKept
<1>7. \A i \in Indexes(D), j \in Indexes(D) :
        dir_[i] = dir_[j] <=> LET e == bucket[dir_[i]].depth_ IN Low(i, e) = Low(j, e)
  BY <1>2 DEF IInv, EntriesShareByDepth
<1>8. \A i \in Indexes(E), e \in 0..D : Low(i, e) = Low(Low(i, D), e)
  BY <1>3, LowLow
<1> HIDE DEF S, Kept, E, D, b, d, odd
<1>9. TypeOK'
  <2>1. dir_' \in [Indexes(E) -> 1..odd]
    BY <1>1, <1>5
  <2>2. \A x \in 1..odd : bucket'[x] \in [depth_ : 0..E, list_ : SUBSET Pairs]
    <3> SUFFICES ASSUME NEW x \in 1..odd PROVE bucket'[x] \in [depth_ : 0..E, list_ : SUBSET Pairs]
      OBVIOUS
    <3>1. CASE x \in {b, odd}
      BY <1>1, <1>2, <1>3, <1>6, <3>1
    <3>2. CASE x \notin {b, odd}
      BY <1>1, <1>2, <1>3, <1>4, <3>2 DEF odd
    <3> QED
      BY <3>1, <3>2
  <2>3. DOMAIN bucket' = 1..odd
    BY <1>1
  <2> QED
    BY <1>1, <1>4, <2>1, <2>2, <2>3 DEF IInv, TypeOK
<1>10. EntriesShareByDepth'
  <2> SUFFICES ASSUME NEW i \in Indexes(E), NEW j \in Indexes(E)
               PROVE  S(i) = S(j) <=> LET e == bucket'[S(i)].depth_ IN Low(i, e) = Low(j, e)
    BY <1>1 DEF EntriesShareByDepth
  <2> DEFINE i0 == Low(i, D)
             j0 == Low(j, D)
  <2>1. /\ i0 \in Indexes(D) /\ j0 \in Indexes(D)
        /\ dir_[i0] = dir_[j0] <=> LET e == bucket[dir_[i0]].depth_ IN Low(i0, e) = Low(j0, e)
    BY <1>5, <1>7
  <2>2. CASE dir_[i0] = b
    <3>1. bucket'[S(i)].depth_ = d + 1
      BY <1>1, <1>5, <2>2
    <3>2. dir_[j0] = b <=> Low(i, d) = Low(j, d)
      BY <1>3, <1>8, <2>1, <2>2 DEF d
    <3>3. Low(i, d + 1) = Low(j, d + 1) <=> Low(i, d) = Low(j, d) /\ i[d + 1] = j[d + 1]
      BY <1>3, LowNextBit
    <3>4. i[d + 1] \in Bit /\ j[d + 1] \in Bit
      BY <1>3 DEF Indexes
    <3> QED
      BY <1>4, <1>5, <2>2, <3>1, <3>2, <3>3, <3>4 DEF Bit
  <2>3. CASE dir_[i0] # b
    <3>1. S(i) = dir_[i0] /\ S(i) \in 1..num_buckets_ /\ S(i) \notin {b, odd}
      BY <1>5, <2>3
    <3>2. bucket'[S(i)].depth_ = bucket[dir_[i0]].depth_ /\ bucket[dir_[i0]].depth_ \in 0..D
      BY <1>1, <1>2, <1>5, <3>1
    <3>3. S(j) = S(i) <=> dir_[j0] = dir_[i0]
      BY <1>5, <2>3, <3>1
    <3> QED
      BY <1>8, <2>1, <3>2, <3>3
  <2> QED
    BY <2>2, <2>3
<1>11. {dir_'[i] : i \in DOMAIN dir_'} = 1..odd
  <2>1. DOMAIN dir_' = Indexes(E) /\ \A i \in Indexes(E) : dir_'[i] = S(i)
    BY <1>1
  <2>2. ASSUME NEW x \in {b, odd} PROVE \E j \in Indexes(E) : S(j) = x
    <3> DEFINE index == IndexOf(call.key)
               bit == IF x = b THEN 0 ELSE 1
    <3>1. index \in Indexes(D) /\ dir_[index] = b
      BY <1>1, HomeOfCall DEF Home, D, b
    <3>2. Low(index, d) \in Indexes(d) /\ bit \in Bit /\ d \in 0..E /\ d < E
      BY <1>3, <3>1, LowType DEF Bit
    <3> HIDE DEF index, bit
    <3>3. PICK j \in Indexes(E) : Low(j, d) = Low(index, d) /\ j[d + 1] = bit
      BY <1>3, <3>2, LowExtend
    <3>4. Low(j, D) \in Indexes(D) /\ Low(Low(j, D), d) = Low(index, d)
      BY <1>3, <1>5, <1>8, <3>3
    <3>5. dir_[Low(j, D)] = b
      BY <1>7, <3>1, <3>4 DEF d
    <3>6. S(j) = x
      BY <1>4, <1>5, <2>2, <3>3, <3>5 DEF bit
    <3> QED
      BY <3>6
  <2>3. ASSUME NEW x \in 1..odd, x \notin {b, odd} PROVE \E j \in Indexes(E) : S(j) = x
    <3>1. PICK i \in Indexes(D) : dir_[i] = x
      BY <1>2, <1>4, <2>3 DEF IInv, PairsWhereLookedFor, odd
    <3>2. PICK j \in Indexes(E) : Low(j, D) = i
      BY <1>3, LowExtend DEF Bit
    <3>3. S(j) = x
      BY <1>5, <2>3, <3>1, <3>2
    <3> QED
      BY <3>3
  <2> QED
    BY <1>5, <2>1, <2>2, <2>3
<1>12. ASSUME NEW x \in 1..odd
       PROVE  /\ IsFiniteSet(bucket'[x].list_) /\ Cardinality(bucket'[x].list_) <= BucketSize
              /\ \A p \in bucket'[x].list_ : /\ dir_'[Low(Hash[p[1]], E)] = x
                                             /\ Matches(bucket'[x].list_, p[1]) = {p}
  <2>1. ASSUME NEW y \in 1..num_buckets_
        PROVE  /\ IsFiniteSet(bucket[y].list_) /\ Cardinality(bucket[y].list_) <= BucketSize
               /\ \A p \in bucket[y].list_ : /\ p[1] \in Keys /\ dir_[Low(Hash[p[1]], D)] = y
                                             /\ Matches(bucket[y].list_, p[1]) = {p}
    BY <1>2 DEF IInv, PairsWhereLookedFor, Home, IndexOf, Pairs, D
  <2>2. CASE x \in {b, odd}
    <3>1. bucket'[x].list_ = Kept(x)
      BY <1>1, <2>2
    <3>2. IsFiniteSet(Kept(x)) /\ Cardinality(Kept(x)) <= Cardinality(bucket[b].list_)
      BY <1>1, <1>6, <2>1, FS_Subset
    <3>3. Cardinality(Kept(x)) \in Nat /\ Cardinality(bucket[b].list_) \in Nat
      BY <1>1, <2>1, <3>2, FS_CardinalityType
    <3>4. ASSUME NEW p \in Kept(x) PROVE dir_'[Low(Hash[p[1]], E)] = x /\ Matches(Kept(x), p[1]) = {p}
      <4>1. p \in bucket[b].list_ /\ p[1] \in Keys
        BY <1>1, <1>6, <2>1, <3>4
      <4>2. Low(Hash[p[1]], E) \in Indexes(E)
        BY <1>1, <4>1, HashIndex
      <4>3. S(Low(Hash[p[1]], E)) = x
        BY <3>4 DEF Kept, SplitKept, S, E
      <4>4. Matches(Kept(x), p[1]) = {p}
        BY <1>1, <1>6, <2>1, <4>1, <3>4 DEF Matches
      <4> QED
        BY <1>1, <4>2, <4>3, <4>4
    <3> QED
      BY <1>1, <2>1, <3>1, <3>2, <3>3, <3>4, BucketSizeAssumption
  <2>3. CASE x \notin {b, odd}
    <3>1. bucket'[x] = bucket[x] /\ x \in 1..num_buckets_
      BY <1>1, <1>2, <1>4, <2>3 DEF odd
    <3>2. ASSUME NEW p \in bucket[x].list_ PROVE dir_'[Low(Hash[p[1]], E)] = x
      <4>1. p[1] \in Keys /\ dir_[Low(Hash[p[1]], D)] = x
        BY <2>1, <3>1, <3>2
      <4>2. Low(Hash[p[1]], E) \in Indexes(E)
        BY <1>1, <4>1, HashIndex
      <4>3. Low(Low(Hash[p[1]], E), D) = Low(Hash[p[1]], D)
        BY <1>3, LowLow
      <4> QED
        BY <1>1, <1>5, <2>3, <4>1, <4>2, <4>3
    <3> QED
      BY <2>1, <3>1, <3>2
  <2> QED
    BY <2>2, <2>3
<1>13. PairsWhereLookedFor'
  <2>1. DOMAIN bucket' = 1..odd /\ num_buckets_' = odd /\ global_depth_' = E
    BY <1>1
  <2>2. \A k : Home(k)' = dir_'[Low(Hash[k], E)]
    BY <2>1 DEF Home, IndexOf
  <2>3. \A x \in 1..odd : /\ Cardinality(bucket'[x].list_) <= BucketSize
                          /\ \A p \in bucket'[x].list_ : Home(p[1])' = x /\ Matches(bucket'[x].list_, p[1]) = {p}
    BY <1>12, <2>2
  <2> QED
    BY <1>11, <2>1, <2>3 DEF PairsWhereLookedFor
<1> QED
  BY <1>1, <1>9, <1>10, <1>12, <1>13 DEF IInv

\* A split changes no answer.
LEMMA SplitContents == IInv /\ Split => Contents' = Contents
<1> SUFFICES ASSUME IInv, Split, NEW k \in Keys
             PROVE  ValueIn(bucket[Home(k)].list_, k)' = ValueIn(bucket[Home(k)].list_, k)
  BY DEF Contents
<1> DEFINE b == Home(call.key)
           odd == num_buckets_ + 1
           E == DepthAfter(b)
           i == Low(Hash[k], E)
           S == SplitEntry(i, b, odd)
<1>1. /\ call.key \in Keys /\ b \in 1..num_buckets_ /\ E \in 0..Width
      /\ global_depth_' = E
      /\ dir_' = [j \in Indexes(E) |-> SplitEntry(j, b, odd)]
      /\ bucket' = [x \in 1..odd |->
                      IF x \in {b, odd} THEN [depth_ |-> bucket[b].depth_ + 1, list_ |-> SplitKept(b, odd, x)]
                      ELSE bucket[x]]
  BY SplitDir
<1>2. /\ num_buckets_ \in Nat /\ Home(k) \in 1..num_buckets_ /\ b \in DOMAIN bucket
  BY <1>1, HomeOfCall DEF IInv, TypeOK
<1>3. i \in Indexes(E)
  BY <1>1, HashIndex
<1>4. Home(k)' = S
  BY <1>1, <1>3 DEF Home, IndexOf
<1>5. Low(i, global_depth_) = Low(Hash[k], global_depth_)
  BY <1>2, SplitDepths, LowLow
<1>6. S = IF Home(k) = b THEN IF i[bucket[b].depth_ + 1] = 0 THEN b ELSE odd ELSE Home(k)
  BY <1>5 DEF SplitEntry, Home, IndexOf
<1>7. CASE Home(k) # b
  <2>1. bucket'[S] = bucket[Home(k)]
    BY <1>1, <1>2, <1>6, <1>7
  <2> QED
    BY <1>4, <2>1 DEF ValueIn, Matches
<1>8. CASE Home(k) = b
  <2> DEFINE l == bucket[b].list_
  <2>1. S \in {b, odd} /\ S \in 1..odd
    BY <1>1, <1>2, <1>6, <1>8
  <2>2. bucket'[S].list_ = SplitKept(b, odd, S)
    BY <1>1, <2>1
  <2>3. Matches(l, k) = Matches(SplitKept(b, odd, S), k)
    BY DEF Matches, SplitKept
  <2>4. \A p \in l : Matches(l, p[1]) = {p}
    BY <1>2 DEF IInv, PairsWhereLookedFor
  <2> HIDE DEF S, l
  <2>5. ValueIn(l, k) = ValueIn(bucket'[S].list_, k)
    BY <2>2, <2>3, <2>4, SameMatches
  <2>6. ValueIn(bucket[Home(k)].list_, k)' = ValueIn(bucket'[S].list_, k)
    BY <1>4 DEF ValueIn, Matches
  <2> QED
    BY <1>8, <2>5, <2>6 DEF l
<1> QED
  BY <1>7, <1>8

-----------------------------------------------------------------------------
(* Insert, Find and Remove                                                 *)

\* The steps that answer change the pairs of one bucket.
LEMMA UpdateInv ==
  ASSUME IInv, NEW b \in DOMAIN bucket, NEW l \in SUBSET Pairs,
         IsFiniteSet(l), Cardinality(l) <= BucketSize,
         \A p \in l : Home(p[1]) = b /\ Matches(l, p[1]) = {p},
         bucket' = [bucket EXCEPT ![b].list_ = l],
         UNCHANGED <<global_depth_, dir_, num_buckets_>>,
         call' \in Calls \cup {Absent}, answer' \in Values \cup BOOLEAN \cup {Absent}
  PROVE  /\ IInv'
         /\ Contents' = [k \in Keys |-> IF Home(k) = b THEN ValueIn(l, k) ELSE Contents[k]]
<1>1. DOMAIN bucket' = DOMAIN bucket /\ \A k : Home(k)' = Home(k)
  BY DEF Home, IndexOf
<1>2. \A x \in DOMAIN bucket : /\ bucket'[x].depth_ = bucket[x].depth_
                               /\ x # b => bucket'[x] = bucket[x]
                               /\ x = b => bucket'[x] = [depth_ |-> bucket[b].depth_, list_ |-> l]
  BY DEF IInv, TypeOK
<1>3. TypeOK'
  <2>1. \A x \in DOMAIN bucket' : bucket'[x] \in [depth_ : 0..global_depth_, list_ : SUBSET Pairs]
    BY <1>1, <1>2 DEF IInv, TypeOK
  <2> QED
    BY <1>1, <2>1 DEF IInv, TypeOK
<1>4. EntriesShareByDepth'
  <2>1. \A i \in DOMAIN dir_ : dir_[i] \in DOMAIN bucket
    BY DEF IInv, TypeOK
  <2> QED
    BY <1>2, <2>1 DEF IInv, EntriesShareByDepth
<1>5. \A x \in DOMAIN bucket :
        /\ IsFiniteSet(bucket'[x].list_) /\ Cardinality(bucket'[x].list_) <= BucketSize
        /\ \A p \in bucket'[x].list_ : Home(p[1]) = x /\ Matches(bucket'[x].list_, p[1]) = {p}
  BY <1>2 DEF IInv, PairsWhereLookedFor
<1>6. PairsWhereLookedFor'
  <2>1. \A x \in DOMAIN bucket' :
          /\ Cardinality(bucket'[x].list_) <= BucketSize
          /\ \A p \in bucket'[x].list_ : Home(p[1])' = x /\ Matches(bucket'[x].list_, p[1]) = {p}
    BY <1>1, <1>5
  <2>2. {dir_'[i] : i \in DOMAIN dir_'} = 1..num_buckets_'
    BY DEF IInv, PairsWhereLookedFor
  <2> QED
    BY <2>1, <2>2 DEF PairsWhereLookedFor
<1>7. IInv'
  BY <1>1, <1>3, <1>4, <1>5, <1>6 DEF IInv
<1>8. ASSUME NEW k \in Keys
      PROVE  ValueIn(bucket[Home(k)].list_, k)' = IF Home(k) = b THEN ValueIn(l, k)
                                                  ELSE ValueIn(bucket[Home(k)].list_, k)
  <2> DEFINE h == Home(k)
  <2>0. h' = h
    BY DEF Home, IndexOf
  <2> HIDE DEF h
  <2>1. ValueIn(bucket[h].list_, k)' = ValueIn(bucket'[h].list_, k)
    BY <2>0 DEF ValueIn, Matches
  <2>2. Home(k) \in DOMAIN bucket
    BY HomeOfCall
  <2> QED
    BY <1>2, <2>1, <2>2 DEF h
<1>9. Contents' = [k \in Keys |-> IF Home(k) = b THEN ValueIn(l, k) ELSE Contents[k]]
  BY <1>8 DEF Contents
<1> QED
  BY <1>7, <1>9

\* Insert sets one key.
LEMMA InsertMaps ==
  ASSUME IInv, Insert
  PROVE  IInv' /\ Contents' = [Contents EXCEPT ![call.key] = call.value]
<1> DEFINE k == call.key
           v == call.value
           b == Home(k)
           old == bucket[b].list_
           M == Matches(old, k)
           l == BucketInsert(old, k, v)
<1>1. k \in Keys /\ v \in Values
  BY DEF Insert, IInv, TypeOK, Calls
<1>2. /\ bucket' = [bucket EXCEPT ![b].list_ = l] /\ CanInsert(old, k)
      /\ call' = Absent /\ answer' = TRUE /\ UNCHANGED <<global_depth_, dir_, num_buckets_>>
  BY DEF Insert, Return
<1>3. b \in DOMAIN bucket
  BY <1>1, HomeOfCall
<1>4. /\ old \in SUBSET Pairs /\ IsFiniteSet(old) /\ Cardinality(old) <= BucketSize
      /\ \A p \in old : Home(p[1]) = b /\ Matches(old, p[1]) = {p}
  BY <1>3 DEF IInv, TypeOK, PairsWhereLookedFor
<1>5. l = (old \ M) \cup {<<k, v>>}
  BY DEF BucketInsert
<1>6. <<k, v>> \in Pairs /\ \A p \in old \ M : p[1] # k
  BY <1>1 DEF Pairs, Matches
<1>7. <<k, v>> \notin old \ M
  BY <1>6
<1>8. Cardinality(old) \in Nat /\ BucketSize \in Nat /\ BucketSize > 0
  BY <1>4, FS_CardinalityType, BucketSizeAssumption
<1> HIDE DEF l, M, old
<1>9. IsFiniteSet(old \ M) /\ Cardinality(old \ M) + 1 <= BucketSize /\ Cardinality(old \ M) \in Nat
  <2>1. CASE M = {}
    <3>1. Cardinality(old) # BucketSize /\ old \ M = old
      BY <1>2, <2>1 DEF CanInsert, IsFull, M
    <3>2. Cardinality(old) + 1 <= BucketSize
      BY <1>4, <1>8, <3>1
    <3>3. IsFiniteSet(old)
      BY <1>4
    <3> QED
      BY <1>8, <3>1, <3>2, <3>3
  <2>2. CASE M # {}
    <3>1. PICK p : p \in M
      BY <2>2
    <3>2. M = {p} /\ p \in old
      BY <1>4, <3>1 DEF Matches, M
    <3>3. IsFiniteSet(old \ {p}) /\ Cardinality(old \ {p}) = Cardinality(old) - 1
      BY <1>4, <3>2, FS_RemoveElement
    <3>4. Cardinality(old \ {p}) \in Nat
      BY <3>3, FS_CardinalityType
    <3> QED
      BY <1>4, <1>8, <3>2, <3>3, <3>4
  <2> QED
    BY <2>1, <2>2
<1> HIDE DEF b, k, v
<1>10. IsFiniteSet(l) /\ Cardinality(l) <= BucketSize
  <2>1. /\ IsFiniteSet((old \ M) \cup {<<k, v>>})
        /\ Cardinality((old \ M) \cup {<<k, v>>}) = Cardinality(old \ M) + 1
    BY <1>7, <1>9, FS_AddElement
  <2> QED
    BY <1>5, <1>9, <2>1
<1>11. l \in SUBSET Pairs
  BY <1>4, <1>5, <1>6
<1>12. Matches(l, k) = {<<k, v>>} /\ \A j : j # k => Matches(l, j) = Matches(old, j)
  BY <1>5, <1>6 DEF Matches, M
<1>13. \A p \in l : Home(p[1]) = b /\ Matches(l, p[1]) = {p}
  <2> SUFFICES ASSUME NEW p \in l PROVE Home(p[1]) = b /\ Matches(l, p[1]) = {p}
    OBVIOUS
  <2>1. CASE p = <<k, v>>
    BY <1>12, <2>1 DEF b
  <2>2. CASE p \in old \ M
    BY <1>4, <1>6, <1>12, <2>2
  <2> QED
    BY <1>5, <2>1, <2>2
<1>14. /\ IInv'
       /\ Contents' = [j \in Keys |-> IF Home(j) = b THEN ValueIn(l, j) ELSE Contents[j]]
  BY <1>2, <1>3, <1>10, <1>11, <1>13, UpdateInv
<1>15. ValueIn(l, k) = v
  <2>1. ValueIn(l, k) = <<k, v>>[2]
    BY <1>12, ValueOfPair
  <2> QED
    BY <2>1
<1>16. ASSUME NEW j \in Keys, j # k, Home(j) = b PROVE ValueIn(l, j) = Contents[j]
  <2>1. ValueIn(old, j) = ValueIn(l, j)
    BY <1>4, <1>12, <1>16, SameMatches
  <2> QED
    BY <1>16, <2>1 DEF Contents, old
<1>17. \A j \in Keys : (IF Home(j) = b THEN ValueIn(l, j) ELSE Contents[j])
                         = IF j = k THEN v ELSE Contents[j]
  BY <1>15, <1>16 DEF b
<1>18. Contents' = [Contents EXCEPT ![k] = v]
  BY <1>14, <1>17 DEF Contents
<1> QED
  BY <1>14, <1>18 DEF k, v

\* Remove forgets one key, and tells whether it had a value.
LEMMA RemoveMaps ==
  ASSUME IInv, Remove
  PROVE  /\ IInv' /\ Contents' = [Contents EXCEPT ![call.key] = Absent]
         /\ answer' = (Contents[call.key] # Absent)
<1> DEFINE k == call.key
           b == Home(k)
           old == bucket[b].list_
           M == Matches(old, k)
           l == old \ M
<1>1. k \in Keys
  BY DEF Remove, IInv, TypeOK, Calls
<1>2. /\ bucket' = [bucket EXCEPT ![b].list_ = l]
      /\ call' = Absent /\ answer' = (M # {}) /\ UNCHANGED <<global_depth_, dir_, num_buckets_>>
  BY DEF Remove, Return
<1>3. b \in DOMAIN bucket
  BY <1>1, HomeOfCall
<1>4. /\ old \in SUBSET Pairs /\ IsFiniteSet(old) /\ Cardinality(old) <= BucketSize
      /\ \A p \in old : Home(p[1]) = b /\ Matches(old, p[1]) = {p}
  BY <1>3 DEF IInv, TypeOK, PairsWhereLookedFor
<1>5. l \in SUBSET Pairs /\ l \subseteq old
  BY <1>4
<1> HIDE DEF l, old
<1>6. IsFiniteSet(l) /\ Cardinality(l) <= BucketSize
  <2>1. IsFiniteSet(l) /\ Cardinality(l) <= Cardinality(old)
    BY <1>4, <1>5, FS_Subset
  <2>2. Cardinality(l) \in Nat /\ Cardinality(old) \in Nat /\ BucketSize \in Nat
    BY <1>4, <2>1, FS_CardinalityType, BucketSizeAssumption
  <2> QED
    BY <1>4, <2>1, <2>2
<1>7. Matches(l, k) = {} /\ \A j : j # k => Matches(l, j) = Matches(old, j)
  BY DEF Matches, l
<1>8. \A p \in l : Home(p[1]) = b /\ Matches(l, p[1]) = {p}
  BY <1>4, <1>5, <1>7 DEF Matches
<1>9. ValueIn(old, k) = Contents[k] /\ (ValueIn(old, k) # Absent <=> M # {})
  BY <1>1, <1>4, ValueType DEF Contents, old
<1> HIDE DEF b, k, M
<1>10. answer' \in BOOLEAN
  BY <1>2
<1>11. /\ IInv'
       /\ Contents' = [j \in Keys |-> IF Home(j) = b THEN ValueIn(l, j) ELSE Contents[j]]
  BY <1>2, <1>3, <1>5, <1>6, <1>8, <1>10, UpdateInv
<1>12. ValueIn(l, k) = Absent
  BY <1>7 DEF ValueIn
<1>13. ASSUME NEW j \in Keys, j # k, Home(j) = b PROVE ValueIn(l, j) = Contents[j]
  <2>1. ValueIn(old, j) = ValueIn(l, j)
    BY <1>4, <1>7, <1>13, SameMatches
  <2> QED
    BY <1>13, <2>1 DEF Contents, old
<1>14. \A j \in Keys : (IF Home(j) = b THEN ValueIn(l, j) ELSE Contents[j])
                         = IF j = k THEN Absent ELSE Contents[j]
  BY <1>12, <1>13 DEF b
<1>15. Contents' = [Contents EXCEPT ![k] = Absent]
  BY <1>11, <1>14 DEF Contents
<1>16. answer' = (Contents[k] # Absent)
  BY <1>2, <1>9
<1> QED
  BY <1>11, <1>15, <1>16 DEF k

\* Find and the begin of a call change no pair.
LEMMA QuietInv ==
  ASSUME IInv, UNCHANGED <<global_depth_, dir_, bucket, num_buckets_>>,
         call' \in Calls \cup {Absent}, answer' \in Values \cup BOOLEAN \cup {Absent}
  PROVE  IInv' /\ Contents' = Contents
<1>1. \A k : Home(k)' = Home(k)
  BY DEF Home, IndexOf
<1>2. TypeOK' /\ EntriesShareByDepth'
  BY DEF IInv, TypeOK, EntriesShareByDepth
<1>3. PairsWhereLookedFor'
  BY <1>1 DEF IInv, PairsWhereLookedFor
<1>4. Contents' = Contents
  BY DEF Contents, Home, IndexOf, ValueIn, Matches
<1> QED
  BY <1>2, <1>3, <1>4 DEF IInv

\* Find answers with the value of its key.
LEMMA FindMaps ==
  ASSUME IInv, Find
  PROVE  IInv' /\ Contents' = Contents /\ answer' = Contents[call.key]
<1> DEFINE l == bucket[Home(call.key)].list_
<1>1. call.key \in Keys
  BY DEF Find, IInv, TypeOK, Calls
<1>2. /\ call' = Absent /\ answer' = ValueIn(l, call.key)
      /\ UNCHANGED <<global_depth_, dir_, bucket, num_buckets_>>
  BY DEF Find, Return
<1>3. answer' = Contents[call.key]
  BY <1>1, <1>2 DEF Contents
<1>4. l \in SUBSET Pairs /\ \A p \in l : Matches(l, p[1]) = {p}
  BY <1>1, HomeOfCall DEF IInv, TypeOK, PairsWhereLookedFor
<1> HIDE DEF l
<1>5. answer' \in Values \cup {Absent}
  BY <1>2, <1>4, ValueType
<1> QED
  BY <1>2, <1>3, <1>5, QuietInv

\* The table begins empty and consistent.
LEMMA InitMaps == Init => IInv /\ Contents = [k \in Keys |-> Absent]
<1> SUFFICES ASSUME Init PROVE IInv /\ Contents = [k \in Keys |-> Absent]
  OBVIOUS
<1>1. /\ global_depth_ = 0 /\ num_buckets_ = 1 /\ DOMAIN bucket = {1}
      /\ bucket[1] = [depth_ |-> 0, list_ |-> {}] /\ call = Absent /\ answer = Absent
      /\ DOMAIN dir_ = Indexes(0) /\ \A i \in Indexes(0) : dir_[i] = 1
  BY DEF Init
<1>2. 1..1 = {1}
  OBVIOUS
<1>3. TypeOK
  BY <1>2, WidthAssumption DEF Init, TypeOK
<1>4. EntriesShareByDepth
  BY <1>1 DEF EntriesShareByDepth, Low
<1>5. \A k \in Keys : Home(k) = 1
  BY <1>1, HashIndex, WidthAssumption DEF Home, IndexOf
<1>6. {dir_[i] : i \in DOMAIN dir_} = 1..num_buckets_
  <2>1. [x \in 1..0 |-> 0] \in Indexes(0)
    BY DEF Indexes
  <2> QED
    BY <1>1, <1>2, <2>1
<1>7. IsFiniteSet({}) /\ Cardinality({}) = 0
  BY FS_EmptySet
<1>8. PairsWhereLookedFor /\ \A b \in DOMAIN bucket : IsFiniteSet(bucket[b].list_)
  BY <1>1, <1>6, <1>7, BucketSizeAssumption DEF PairsWhereLookedFor
<1>9. Contents = [k \in Keys |-> Absent]
  BY <1>1, <1>5 DEF Contents, ValueIn, Matches
<1> QED
  BY <1>3, <1>4, <1>8, <1>9 DEF IInv

-----------------------------------------------------------------------------
(* Theorems                                                                *)

\* Every step keeps the invariant and is a step of the map, or none.
LEMMA NextMaps == IInv /\ [Next]_vars => IInv' /\ [Map!Next]_(Map!vars)
<1> SUFFICES ASSUME IInv, [Next]_vars PROVE IInv' /\ [Map!Next]_(Map!vars)
  OBVIOUS
<1>1. CASE \E c \in Calls : Begin(c)
  <2>1. PICK c \in Calls : Begin(c)
    BY <1>1
  <2>2. answer \in Values \cup BOOLEAN \cup {Absent}
    BY DEF IInv, TypeOK
  <2>3. IInv' /\ Contents' = Contents
    BY <2>1, <2>2, QuietInv DEF Begin
  <2>4. Map!Begin(c)
    BY <2>1, <2>3 DEF Begin, Map!Begin
  <2>5. c \in Map!Calls
    BY DEF Calls, Map!Calls
  <2> QED
    BY <2>3, <2>4, <2>5 DEF Map!Next
<1>2. CASE Insert
  <2>1. IInv' /\ Contents' = [Contents EXCEPT ![call.key] = call.value]
    BY <1>2, InsertMaps
  <2>2. Map!Insert
    BY <1>2, <2>1 DEF Insert, Return, Map!Insert
  <2> QED
    BY <2>1, <2>2 DEF Map!Next
<1>3. CASE Find
  <2>1. IInv' /\ Contents' = Contents /\ answer' = Contents[call.key]
    BY <1>3, FindMaps
  <2>2. Map!Find
    BY <1>3, <2>1 DEF Find, Return, Map!Find
  <2> QED
    BY <2>1, <2>2 DEF Map!Next
<1>4. CASE Remove
  <2>1. /\ IInv' /\ Contents' = [Contents EXCEPT ![call.key] = Absent]
        /\ answer' = (Contents[call.key] # Absent)
    BY <1>4, RemoveMaps
  <2>2. Map!Remove
    BY <1>4, <2>1 DEF Remove, Return, Map!Remove
  <2> QED
    BY <2>1, <2>2 DEF Map!Next
<1>5. CASE Split
  <2>1. IInv' /\ Contents' = Contents
    BY <1>5, SplitInv, SplitContents
  <2>2. UNCHANGED <<call, answer>>
    BY <1>5 DEF Split
  <2> QED
    BY <2>1, <2>2 DEF Map!vars
<1>6. CASE UNCHANGED vars
  <2>1. /\ UNCHANGED <<global_depth_, dir_, bucket, num_buckets_, call, answer>>
        /\ call \in Calls \cup {Absent} /\ answer \in Values \cup BOOLEAN \cup {Absent}
    BY <1>6 DEF vars, IInv, TypeOK
  <2>2. IInv' /\ Contents' = Contents
    BY <2>1, QuietInv
  <2> QED
    BY <2>1, <2>2 DEF Map!vars
<1> QED
  BY <1>1, <1>2, <1>3, <1>4, <1>5, <1>6 DEF Next

\* IInv is an invariant of the table.
THEOREM Invariance == Spec => []IInv
BY InitMaps, NextMaps, PTL DEF Spec

\* The directory is complete and every variable keeps its type.
THEOREM TypeCorrect == Spec => []TypeOK
<1>1. IInv => TypeOK
  BY DEF IInv
<1> QED
  BY <1>1, Invariance, PTL

\* RedistributeBucket and the copying loop keep the directory right: entries
\* lead to the same bucket exactly when they agree on its depth.
THEOREM DirectoryShares == Spec => []EntriesShareByDepth
<1>1. IInv => EntriesShareByDepth
  BY DEF IInv
<1> QED
  BY <1>1, Invariance, PTL

\* No pair is left where IndexOf does not look, no key has two pairs, no
\* bucket holds more than bucket_size_ pairs and every bucket is reached.
THEOREM PairsAreFound == Spec => []PairsWhereLookedFor
<1>1. IInv => PairsWhereLookedFor
  BY DEF IInv
<1> QED
  BY <1>1, Invariance, PTL

\* The table implements the map: Insert, Find and Remove take effect in one
\* step and the splits between are not seen by a caller.
THEOREM TableIsMap == Spec => ImplementsMap
<1>1. Init => Map!Init
  BY InitMaps DEF Init, Map!Init
<1>2. IInv /\ [Next]_vars => [Map!Next]_(Map!vars)
  BY NextMaps
<1> QED
  BY <1>1, <1>2, Invariance, PTL DEF Spec, Map!Spec, ImplementsMap
=============================================================================
