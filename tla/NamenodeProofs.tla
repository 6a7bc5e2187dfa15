--------------------------- MODULE NamenodeProofs ---------------------------
(***************************************************************************)
(* Proofs about module Namenode, for any set of paths, namenodes, handlers *)
(* and requests.                                                           *)
(*                                                                         *)
(* TypeOK, NoDuplicateDentry, DentryHasRecord and MkdirNeverTrips are all  *)
(* about what a store may hold, and none of them is inductive: an inode    *)
(* travels from one store through a handler and the log into another one,  *)
(* possibly an older one that is being replayed.  The inductive invariant  *)
(* IInv therefore says of every inode, wherever it is, that its sub has no *)
(* duplicate and that what it lists has a record in the store it goes to.  *)
(* Records are never taken out of a store, and which ones an entry adds    *)
(* does not depend on the store, so the sets of recorded paths (Rec) of    *)
(* the history, of the replicas and of the handlers can be compared.       *)
(***************************************************************************)
EXTENDS Namenode, TLAPS

CleanInode == [is_directory : BOOLEAN,
               valid        : BOOLEAN,
               ddl_lock     : Nat,
               sub          : [Items -> 0..1],
               agg_inode_id : AggIds \cup {NoAgg}]

InodeMaps == UNION {[S -> CleanInode] : S \in (SUBSET Paths) \ {{}}}

Store == [inodes : [Paths -> CleanInode \cup {NotFound}],
          aggs   : [AggIds -> AggInode \cup {NotFound}]]

Entry == [op : OpTypes, inodes : InodeMaps]
           \cup [op : {"OP_PUTAGG"}, id : AggIds, files : SUBSET Paths]

Active == [op : RequestOps, node : Nodes, todo : SUBSET Paths,
           blocks : SUBSET Blocks, id : AggIds \cup {NoAgg},
           inodes : InodeMaps \cup {<< >>}, entries : Seq(Entry), wait : Nat]

\* The paths a store has a record of.
Rec(d) == {p \in Paths : d.inodes[p] # NotFound}

\* What inode lists has a record: R is the set of recorded paths.
ListsOnly(inode, R) ==
  \A p \in Paths, k \in BOOLEAN : inode.sub[Dentry(p, k)] > 0 => p \in R

NoDangling(d) == \A q \in Rec(d) : ListsOnly(d.inodes[q], Rec(d))

\* Entry e may be applied to a store with records of the paths in R.
EntryOK(e, R) ==
  /\ e.op # "OP_PUTAGG" => \A p \in DOMAIN e.inodes : ListsOnly(e.inodes[p], R)
  /\ e.op = "OP_MKDIR" => \A p \in DOMAIN e.inodes : Parent[p] \in R \cup {Root}

\* The path of an entry with one inode.
PathOf(e) == CHOOSE q \in DOMAIN e.inodes : TRUE

\* The paths an entry writes records of.
Added(e) ==
  CASE e.op = "OP_PUTAGG"     -> {}
    [] e.op = "OP_PUTBATCH"   -> DOMAIN e.inodes
    [] e.op = "OP_PUTOKBATCH" -> DOMAIN e.inodes \cup {Parent[p] : p \in DOMAIN e.inodes}
    [] e.op = "OP_PUT"        -> {PathOf(e)}
    [] e.op \in {"OP_MKDIR", "OP_PUTOK", "OP_RM"} -> {PathOf(e), Parent[PathOf(e)]}

LastRec == Rec(hist[Len(hist)])

TypeInv ==
  /\ log \in Seq(Entry)
  /\ hist \in Seq(Store) /\ Len(hist) = Len(log) + 1
  /\ db \in [Nodes -> Store]
  /\ applied \in [Nodes -> Nat] /\ \A n \in Nodes : applied[n] <= Len(log)
  /\ up \in [Nodes -> BOOLEAN]
  /\ leader \in Nodes \cup {NoLeader}
  /\ clock \in 1..MaxTime
  /\ rpc \in [Handlers -> Active \cup {Idle}]
  /\ calls \in 0..MaxCalls
  /\ faults \in 0..MaxFaults

HistInv ==
  /\ Rec(hist[1]) = {}
  /\ \A i \in 1..Len(log) : /\ Rec(hist[i + 1]) = Rec(hist[i]) \cup Added(log[i])
                            /\ EntryOK(log[i], Rec(hist[i]))
  /\ \A i \in 1..Len(hist) : Rec(hist[i]) \subseteq LastRec

DbInv ==
  \A n \in Nodes : /\ Rec(hist[applied[n] + 1]) \subseteq Rec(db[n])
                   /\ Rec(db[n]) \subseteq LastRec
                   /\ NoDangling(db[n])

HandlerOK(c, R) ==
  /\ \A p \in DOMAIN c.inodes : ListsOnly(c.inodes[p], R)
  /\ c.op = "mkdir" => \A p \in c.todo \cup DOMAIN c.inodes : Parent[p] \in R \cup {Root}
  /\ \A i \in 1..Len(c.entries) : EntryOK(c.entries[i], R)

\* A handler is idle, or its state is in order for a group whose history has
\* records of the paths in R and len entries.
SlotOK(c, R, len) ==
  \/ c = Idle
  \/ /\ c \in Active
     /\ c.wait <= len
     /\ c.op = "put_ok_batch" => c.id \in AggIds
     /\ HandlerOK(c, R)

RpcInv == \A h \in Handlers : SlotOK(rpc[h], LastRec, Len(log))

\* The inductive invariant.
IInv == TypeInv /\ HistInv /\ DbInv /\ RpcInv
-----------------------------------------------------------------------------
(* Inodes                                                                  *)

\* A sub without duplicates is a sub.
LEMMA CleanIsInode == CleanInode \subseteq Inode
  BY DEF CleanInode, Inode, Sub

\* The constants of the store are well formed, and none of them is an inode.
LEMMA NotFoundNoInode == NotFound \notin CleanInode /\ NotFound \notin AggInode
  BY CleanIsInode, NamespaceAssumption

\* A fresh inode and the default directory are clean and list nothing.
LEMMA ConstantInodes ==
  /\ get_default_dir \in CleanInode
  /\ \A v \in BOOLEAN : NewInode(v) \in CleanInode
  /\ \A R : ListsOnly(get_default_dir, R) /\ \A v \in BOOLEAN : ListsOnly(NewInode(v), R)
  BY DEF get_default_dir, NewInode, CleanInode, NoSub, ListsOnly, Items, Dentry

\* What the reads of class RocksDB return.
LEMMA Reads ==
  ASSUME NEW d \in Store, NEW p \in Paths
  PROVE  /\ get_inode(d, p) \in CleanInode
         /\ get_parent_inode(d, p) \in CleanInode
  BY ConstantInodes, NamespaceAssumption
     DEF Store, get_inode, get_parent_inode

\* What is read of a store lists only paths the store has records of.
LEMMA ReadsListed ==
  ASSUME NEW d \in Store, NEW p \in Paths, NoDangling(d)
  PROVE  /\ ListsOnly(get_inode(d, p), Rec(d))
         /\ ListsOnly(get_parent_inode(d, p), Rec(d))
  BY ConstantInodes, NamespaceAssumption
     DEF Store, get_inode, get_parent_inode, NoDangling, Rec

\* Adding a directory entry keeps an inode clean, and lists no other path.
LEMMA AddDentryClean ==
  ASSUME NEW dir \in CleanInode, NEW x \in Items
  PROVE  AddDentry(dir, x) \in CleanInode
  BY DEF AddDentry, CleanInode

\* An added entry lists one path more.
LEMMA AddDentryListed ==
  ASSUME NEW dir \in CleanInode, NEW p \in Paths, NEW inode \in CleanInode,
         NEW R, ListsOnly(dir, R)
  PROVE  ListsOnly(AddDentry(dir, filename(p, inode)), R \cup {p})
  BY DEF AddDentry, CleanInode, ListsOnly, filename, Dentry, Items

\* Erasing an entry keeps an inode clean and lists nothing new.
LEMMA EraseDentryClean ==
  ASSUME NEW dir \in CleanInode, NEW p \in Paths, NEW R, ListsOnly(dir, R)
  PROVE  EraseDentry(dir, p) \in CleanInode /\ ListsOnly(EraseDentry(dir, p), R)
<1> DEFINE names == {Dentry(p, FALSE), Dentry(p, TRUE)}
           new == [x \in Items |-> IF x \in names THEN 0 ELSE dir.sub[x]]
<1>1. EraseDentry(dir, p) = [dir EXCEPT !.sub = new]
  BY DEF EraseDentry
<1> HIDE DEF names
<1>2. dir.sub \in [Items -> 0..1]
  BY DEF CleanInode
<1>3. new \in [Items -> 0..1]
  BY <1>2
<1>4. \A x \in Items : new[x] > 0 => dir.sub[x] > 0
  BY <1>2
<1> HIDE DEF new
<1>5. EraseDentry(dir, p) \in CleanInode /\ EraseDentry(dir, p).sub = new
  BY <1>3, <1>1 DEF CleanInode
<1>6. \A q \in Paths, k \in BOOLEAN : Dentry(q, k) \in Items
  BY DEF Dentry, Items
<1> QED
  BY <1>4, <1>5, <1>6 DEF ListsOnly

\* An inode that lists recorded paths still does when there are more records.
LEMMA ListsMore ==
  ASSUME NEW inode, NEW R, NEW S, R \subseteq S, ListsOnly(inode, R)
  PROVE  ListsOnly(inode, S)
  BY DEF ListsOnly

\* The same for a log entry.
LEMMA EntryOKMore ==
  ASSUME NEW e, NEW R, NEW S, R \subseteq S, EntryOK(e, R)
  PROVE  EntryOK(e, S)
  BY DEF EntryOK, ListsOnly

-----------------------------------------------------------------------------
(* What an entry does to a store                                           *)

\* The parts of a log entry, by its type.
LEMMA EntryShape ==
  ASSUME NEW e \in Entry
  PROVE  \/ /\ e.op \in OpTypes
            /\ DOMAIN e.inodes \subseteq Paths
            /\ DOMAIN e.inodes # {}
            /\ e.inodes \in [DOMAIN e.inodes -> CleanInode]
            /\ PathOf(e) \in DOMAIN e.inodes
         \/ e.op = "OP_PUTAGG" /\ e.id \in AggIds /\ e.files \subseteq Paths
<1>1. CASE e \in [op : OpTypes, inodes : InodeMaps]
  <2>1. PICK S \in (SUBSET Paths) \ {{}} : e.inodes \in [S -> CleanInode]
    BY <1>1 DEF InodeMaps
  <2>2. DOMAIN e.inodes = S
    BY <2>1
  <2> QED
    BY <1>1, <2>1, <2>2 DEF PathOf
<1>2. CASE e \in [op : {"OP_PUTAGG"}, id : AggIds, files : SUBSET Paths]
  BY <1>2
<1> QED
  BY <1>1, <1>2 DEF Entry

\* The record a put_ok leaves.
LEMMA PutOkRecordClean ==
  ASSUME NEW d \in Store, NEW p \in Paths, NEW inode \in CleanInode
  PROVE  /\ PutOkRecord(d, p, inode) \in CleanInode
         /\ PutOkRecord(d, p, inode).sub = inode.sub
<1>1. get_inode(d, p) \in CleanInode
  BY Reads
<1> QED
  BY <1>1 DEF PutOkRecord, unlock, CleanInode

\* Store w is store d with new inodes at the paths in S, and nothing else in
\* its inodes differs.
Updates(w, d, S) ==
  /\ w \in Store
  /\ S \subseteq Paths
  /\ \A p \in S : w.inodes[p] \in CleanInode
  /\ \A p \in Paths \ S : w.inodes[p] = d.inodes[p]

\* Then their records are added, and nothing dangles if the new inodes list
\* what is there afterwards.
LEMMA UpdateRecords ==
  ASSUME NEW d \in Store, NEW w, NEW S, Updates(w, d, S)
  PROVE  Rec(w) = Rec(d) \cup S
  BY NotFoundNoInode DEF Rec, Updates

\* After an update nothing dangles, if the new inodes list what is recorded then.
LEMMA UpdateListed ==
  ASSUME NEW d \in Store, NEW w, NEW S, Updates(w, d, S), NoDangling(d),
         \A p \in S : ListsOnly(w.inodes[p], Rec(d) \cup S)
  PROVE  NoDangling(w)
<1>1. Rec(w) = Rec(d) \cup S
  BY UpdateRecords
<1> SUFFICES ASSUME NEW q \in Rec(w) PROVE ListsOnly(w.inodes[q], Rec(w))
  BY DEF NoDangling
<1>2. CASE q \in S
  BY <1>1, <1>2
<1>3. CASE q \notin S
  <2>1. q \in Rec(d) /\ w.inodes[q] = d.inodes[q]
    BY <1>1, <1>3 DEF Rec, Updates
  <2>2. ListsOnly(d.inodes[q], Rec(d))
    BY <2>1 DEF NoDangling
  <2> QED
    BY <1>1, <2>1, <2>2, ListsMore
<1> QED
  BY <1>2, <1>3

\* A batch that puts the parent's inode and then the path's own.
Put2(d, p, dir, i) == [d EXCEPT !.inodes[Parent[p]] = dir, !.inodes[p] = i]

\* Putting the inode of a path and of its parent is such an update.
LEMMA PutTwo ==
  ASSUME NEW d \in Store, NEW p \in Paths, NEW dir \in CleanInode, NEW i \in CleanInode
  PROVE  LET w == Put2(d, p, dir, i)
         IN  /\ Updates(w, d, {p, Parent[p]})
             /\ w.inodes[p] = i
             /\ p # Parent[p] => w.inodes[Parent[p]] = dir
<1>1. Parent[p] \in Paths
  BY NamespaceAssumption
<1> QED
  BY <1>1 DEF Updates, Store, Put2

\* The same, with what the two inodes list.
LEMMA PutTwoListed ==
  ASSUME NEW d \in Store, NEW p \in Paths, NEW dir \in CleanInode, NEW i \in CleanInode,
         NoDangling(d), ListsOnly(dir, Rec(d) \cup {p}), ListsOnly(i, Rec(d))
  PROVE  NoDangling(Put2(d, p, dir, i))
<1> DEFINE w == Put2(d, p, dir, i)
<1>1. /\ Updates(w, d, {p, Parent[p]})
      /\ w.inodes[p] = i
      /\ p # Parent[p] => w.inodes[Parent[p]] = dir
  BY PutTwo
<1> HIDE DEF w
<1>2. /\ ListsOnly(dir, Rec(d) \cup {p, Parent[p]})
      /\ ListsOnly(i, Rec(d) \cup {p, Parent[p]})
  BY DEF ListsOnly
<1>3. \A q \in {p, Parent[p]} : ListsOnly(w.inodes[q], Rec(d) \cup {p, Parent[p]})
  BY <1>1, <1>2
<1>4. NoDangling(w)
  BY <1>1, <1>3, UpdateListed
<1> QED
  BY <1>4 DEF w

\* The operations of class RocksDB that put one inode, and its parent's.
LEMMA MkdirWrites ==
  ASSUME NEW d \in Store, NEW p \in Paths, NEW inode \in CleanInode
  PROVE  LET w == internal_mkdir(d, p, inode)
         IN  /\ Updates(w, d, {p, Parent[p]})
             /\ NoDangling(d) /\ ListsOnly(inode, Rec(d)) => NoDangling(w)
<1> DEFINE dir == AddDentry(get_parent_inode(d, p), filename(p, inode))
<1>1. dir \in CleanInode
  <2>1. filename(p, inode) \in Items
    BY DEF filename, Dentry, Items, CleanInode
  <2> QED
    BY <2>1, Reads, AddDentryClean
<1>2. NoDangling(d) => ListsOnly(dir, Rec(d) \cup {p})
  BY Reads, ReadsListed, AddDentryListed
<1>3. internal_mkdir(d, p, inode) = Put2(d, p, dir, inode)
  BY DEF internal_mkdir, Put2
<1> HIDE DEF dir
<1> QED
  BY <1>1, <1>2, <1>3, PutTwo, PutTwoListed

\* internal_put_ok records its path and lists it in the parent.
LEMMA PutOkWrites ==
  ASSUME NEW d \in Store, NEW p \in Paths, NEW inode \in CleanInode
  PROVE  LET w == internal_put_ok(d, p, inode)
         IN  /\ Updates(w, d, {p, Parent[p]})
             /\ NoDangling(d) /\ ListsOnly(inode, Rec(d)) => NoDangling(w)
<1> DEFINE dir == AddDentry(get_parent_inode(d, p), filename(p, inode))
           own == PutOkRecord(d, p, inode)
<1>1. dir \in CleanInode
  <2>1. filename(p, inode) \in Items
    BY DEF filename, Dentry, Items, CleanInode
  <2> QED
    BY <2>1, Reads, AddDentryClean
<1>2. NoDangling(d) => ListsOnly(dir, Rec(d) \cup {p})
  BY Reads, ReadsListed, AddDentryListed
<1>3. own \in CleanInode /\ (ListsOnly(inode, Rec(d)) => ListsOnly(own, Rec(d)))
  BY PutOkRecordClean DEF ListsOnly
<1>4. internal_put_ok(d, p, inode) = Put2(d, p, dir, own)
  BY DEF internal_put_ok, Put2
<1> HIDE DEF dir, own
<1> QED
  BY <1>1, <1>2, <1>3, <1>4, PutTwo, PutTwoListed

\* internal_rm keeps every record: the removed path has an invalid one.
LEMMA RmWrites ==
  ASSUME NEW d \in Store, NEW p \in Paths, NEW inode \in CleanInode
  PROVE  LET w == internal_rm(d, p, inode)
         IN  /\ Updates(w, d, {p, Parent[p]})
             /\ NoDangling(d) /\ ListsOnly(inode, Rec(d)) => NoDangling(w)
<1> DEFINE dir == EraseDentry(get_parent_inode(d, p), p)
<1>1. dir \in CleanInode
  <2>1. ListsOnly(get_parent_inode(d, p), Paths)
    BY DEF ListsOnly
  <2> QED
    BY <2>1, Reads, EraseDentryClean
<1>2. NoDangling(d) => ListsOnly(dir, Rec(d) \cup {p})
  <2> SUFFICES ASSUME NoDangling(d) PROVE ListsOnly(dir, Rec(d) \cup {p})
    OBVIOUS
  <2>1. ListsOnly(dir, Rec(d))
    BY Reads, ReadsListed, EraseDentryClean
  <2> QED
    BY <2>1, ListsMore
<1>3. internal_rm(d, p, inode) = Put2(d, p, dir, inode)
  BY DEF internal_rm, agg_rm, Put2
<1> HIDE DEF dir
<1> QED
  BY <1>1, <1>2, <1>3, PutTwo, PutTwoListed

\* internal_put records its path and lists nothing.
LEMMA PutWrites ==
  ASSUME NEW d \in Store, NEW p \in Paths, NEW inode \in CleanInode
  PROVE  LET w == internal_put(d, p, inode)
         IN  /\ Updates(w, d, {p})
             /\ NoDangling(d) /\ ListsOnly(inode, Rec(d)) => NoDangling(w)
<1> DEFINE w == internal_put(d, p, inode)
<1>1. Updates(w, d, {p}) /\ w.inodes[p] = inode
  BY DEF internal_put, Updates, Store
<1> HIDE DEF w
<1>2. ASSUME NoDangling(d), ListsOnly(inode, Rec(d)) PROVE NoDangling(w)
  <2>1. ListsOnly(inode, Rec(d) \cup {p})
    BY <1>2, ListsMore
  <2> QED
    BY <1>1, <1>2, <2>1, UpdateListed
<1> QED
  BY <1>1, <1>2 DEF w

\* The batches.
LEMMA PutBatchWrites ==
  ASSUME NEW d \in Store, NEW S \in SUBSET Paths, NEW batch \in [S -> CleanInode]
  PROVE  LET w == internal_put_batch(d, batch)
         IN  /\ Updates(w, d, S)
             /\ NoDangling(d) /\ (\A p \in S : ListsOnly(batch[p], Rec(d)))
                  => NoDangling(w)
<1> DEFINE w == internal_put_batch(d, batch)
<1>1. Updates(w, d, S) /\ \A p \in S : w.inodes[p] = batch[p]
  BY DEF internal_put_batch, Updates, Store
<1> HIDE DEF w
<1>2. ASSUME NoDangling(d), \A p \in S : ListsOnly(batch[p], Rec(d))
      PROVE  NoDangling(w)
  <2>1. \A p \in S : ListsOnly(w.inodes[p], Rec(d) \cup S)
    BY <1>1, <1>2 DEF ListsOnly
  <2> QED
    BY <1>1, <1>2, <2>1, UpdateListed
<1> QED
  BY <1>1, <1>2 DEF w

\* Adding several directory entries at once.
LEMMA AddManyClean ==
  ASSUME NEW dir \in CleanInode, NEW X
  PROVE  LET new == [dir EXCEPT !.sub = [x \in Items |->
                       IF x \in X /\ dir.sub[x] = 0 THEN 1 ELSE dir.sub[x]]]
         IN  /\ new \in CleanInode
             /\ \A x \in Items : new.sub[x] > 0 => x \in X \/ dir.sub[x] > 0
<1> DEFINE sub == [x \in Items |-> IF x \in X /\ dir.sub[x] = 0 THEN 1 ELSE dir.sub[x]]
<1>1. dir.sub \in [Items -> 0..1]
  BY DEF CleanInode
<1>2. sub \in [Items -> 0..1] /\ \A x \in Items : sub[x] > 0 => x \in X \/ dir.sub[x] > 0
  BY <1>1
<1> HIDE DEF sub
<1>3. [dir EXCEPT !.sub = sub] \in CleanInode /\ [dir EXCEPT !.sub = sub].sub = sub
  BY <1>2 DEF CleanInode
<1> QED
  BY <1>2, <1>3 DEF sub

\* internal_put_ok_batch records its paths and lists them in the parent.
LEMMA PutOkBatchWrites ==
  ASSUME NEW d \in Store, NEW S \in SUBSET Paths, NEW batch \in [S -> CleanInode]
  PROVE  LET w == internal_put_ok_batch(d, batch)
             P == S \cup {Parent[p] : p \in S}
         IN  /\ Updates(w, d, P)
             /\ NoDangling(d) /\ (\A p \in S : ListsOnly(batch[p], Rec(d)))
                  => NoDangling(w)
<1> DEFINE parents == {Parent[p] : p \in S}
           P == S \cup parents
           added(q) == {filename(p, batch[p]) : p \in {f \in S : Parent[f] = q}}
           base(q) == IF d.inodes[q] # NotFound THEN d.inodes[q] ELSE get_default_dir
           dir(q) == [base(q) EXCEPT !.sub = [x \in Items |->
                        IF x \in added(q) /\ base(q).sub[x] = 0 THEN 1 ELSE base(q).sub[x]]]
           rec(p) == PutOkRecord(d, p, batch[p])
           file(p) == IF batch[p].agg_inode_id = NoAgg THEN rec(p)
                      ELSE [rec(p) EXCEPT !.agg_inode_id = batch[p].agg_inode_id]
           new == [p \in Paths |-> IF p \in parents THEN dir(p)
                                   ELSE IF p \in S THEN file(p) ELSE d.inodes[p]]
           w == internal_put_ok_batch(d, batch)
<1>1. w = [d EXCEPT !.inodes = new]
  BY DOMAIN batch = S DEF internal_put_ok_batch
<1>2. P \subseteq Paths
  BY NamespaceAssumption
<1>3. \A q \in Paths : base(q) \in CleanInode
  BY ConstantInodes DEF Store
<1>4. \A q \in Paths : /\ dir(q) \in CleanInode
                       /\ \A x \in Items : dir(q).sub[x] > 0
                            => x \in added(q) \/ base(q).sub[x] > 0
  <2> TAKE q \in Paths
  <2> HIDE DEF added, base
  <2> QED
    BY <1>3, AddManyClean
<1>5. \A p \in S : file(p) \in CleanInode /\ file(p).sub = batch[p].sub
  <2> TAKE p \in S
  <2>1. rec(p) \in CleanInode /\ rec(p).sub = batch[p].sub
    BY PutOkRecordClean
  <2>2. batch[p].agg_inode_id \in AggIds \cup {NoAgg}
    BY DEF CleanInode
  <2> HIDE DEF rec
  <2> QED
    BY <2>1, <2>2 DEF CleanInode
<1>6. w.inodes = new
  BY <1>1 DEF Store
<1>7. Updates(w, d, P)
  <2> HIDE DEF dir, file, w
  <2>1. new \in [Paths -> CleanInode \cup {NotFound}]
    BY <1>4, <1>5 DEF Store
  <2>2. \A p \in P : new[p] \in CleanInode
    BY <1>2, <1>4, <1>5
  <2>3. \A p \in Paths \ P : new[p] = d.inodes[p]
    OBVIOUS
  <2> HIDE DEF new, P
  <2> QED
    BY <1>1, <1>2, <1>6, <2>1, <2>2, <2>3 DEF Updates, Store
<1>8. ASSUME NoDangling(d), \A p \in S : ListsOnly(batch[p], Rec(d))
      PROVE  NoDangling(w)
  <2>1. \A q \in parents : ListsOnly(dir(q), Rec(d) \cup P)
    <3> SUFFICES ASSUME NEW q \in parents, NEW p \in Paths, NEW k \in BOOLEAN,
                        dir(q).sub[Dentry(p, k)] > 0
                 PROVE  p \in Rec(d) \cup P
      BY DEF ListsOnly
    <3>1. Dentry(p, k) \in Items /\ q \in Paths
      BY <1>2 DEF Dentry, Items
    <3>2. Dentry(p, k) \in added(q) \/ base(q).sub[Dentry(p, k)] > 0
      <4> HIDE DEF dir, added, base
      <4> QED
        BY <1>4, <3>1
    <3>3. CASE Dentry(p, k) \in added(q)
      <4>1. PICK f \in S : Dentry(p, k) = filename(f, batch[f])
        BY <3>3
      <4>2. p = f
        BY <4>1 DEF Dentry, filename
      <4> QED
        BY <4>2
    <3>4. CASE base(q).sub[Dentry(p, k)] > 0
      <4>1. ListsOnly(base(q), Rec(d))
        BY <1>8, <3>1, ConstantInodes DEF NoDangling, Rec
      <4> QED
        BY <3>4, <4>1 DEF ListsOnly
    <3> QED
      BY <3>2, <3>3, <3>4
  <2>2. \A p \in S : ListsOnly(file(p), Rec(d) \cup P)
    <3> HIDE DEF file, P
    <3> QED
      BY <1>5, <1>8 DEF ListsOnly
  <2>3. \A p \in P : w.inodes[p] = IF p \in parents THEN dir(p) ELSE file(p)
    <3> HIDE DEF dir, file, w
    <3> QED
      BY <1>2, <1>6
  <2>4. \A p \in P : ListsOnly(w.inodes[p], Rec(d) \cup P)
    <3> HIDE DEF dir, file, w
    <3> QED
      BY <2>1, <2>2, <2>3
  <2> HIDE DEF w, P
  <2> QED
    BY <1>7, <1>8, <2>4, UpdateListed
<1> HIDE DEF w
<1> QED
  BY <1>7, <1>8 DEF w

\* Applying an entry: a store results, the records are those there were and
\* those the entry adds, and nothing dangles that did not before.
LEMMA ApplyEntry ==
  ASSUME NEW d \in Store, NEW e \in Entry
  PROVE  /\ Writes(d, e) \in Store
         /\ Rec(Writes(d, e)) = Rec(d) \cup Added(e)
         /\ NoDangling(d) /\ EntryOK(e, Rec(d)) => NoDangling(Writes(d, e))
<1> DEFINE w == Writes(d, e)
           p == PathOf(e)
           OneInode == /\ p \in Paths
                       /\ e.inodes[p] \in CleanInode
                       /\ EntryOK(e, Rec(d)) => ListsOnly(e.inodes[p], Rec(d))
<1>1. CASE e.op = "OP_PUTAGG"
  <2>1. e.id \in AggIds /\ e.files \subseteq Paths
    BY <1>1, EntryShape DEF OpTypes
  <2>2. w = internal_put_agg(d, e.id, e.files)
    BY <1>1 DEF Writes
  <2>3. w \in Store /\ w.inodes = d.inodes
    BY <2>1, <2>2 DEF internal_put_agg, Store, AggInode
  <2>4. Rec(w) = Rec(d)
    BY <2>3 DEF Rec
  <2>5. Added(e) = {}
    BY <1>1 DEF Added
  <2> HIDE DEF w
  <2> QED
    BY <2>3, <2>4, <2>5 DEF NoDangling, w
<1>2. CASE e.op \in OpTypes
  <2>1. /\ e.op # "OP_PUTAGG"
        /\ DOMAIN e.inodes \in SUBSET Paths
        /\ e.inodes \in [DOMAIN e.inodes -> CleanInode]
        /\ p \in DOMAIN e.inodes
    BY <1>2, EntryShape DEF OpTypes
  <2>2. EntryOK(e, Rec(d)) => \A q \in DOMAIN e.inodes : ListsOnly(e.inodes[q], Rec(d))
    BY <2>1 DEF EntryOK
  <2>3. OneInode
    BY <2>1, <2>2
  <2>4. ASSUME Updates(w, d, Added(e))
        PROVE  w \in Store /\ Rec(w) = Rec(d) \cup Added(e)
    BY <2>4, UpdateRecords DEF Updates
  <2> HIDE DEF p
  <2>5. CASE e.op = "OP_MKDIR"
    <3>1. w = internal_mkdir(d, p, e.inodes[p]) /\ Added(e) = {p, Parent[p]}
      BY <2>5 DEF Writes, Added, PathOf, p
    <3> HIDE DEF w
    <3> QED
      BY <2>3, <2>4, <3>1, MkdirWrites DEF w
  <2>6. CASE e.op = "OP_PUTOK"
    <3>1. w = internal_put_ok(d, p, e.inodes[p]) /\ Added(e) = {p, Parent[p]}
      BY <2>6 DEF Writes, Added, PathOf, p
    <3> HIDE DEF w
    <3> QED
      BY <2>3, <2>4, <3>1, PutOkWrites DEF w
  <2>7. CASE e.op = "OP_RM"
    <3>1. w = internal_rm(d, p, e.inodes[p]) /\ Added(e) = {p, Parent[p]}
      BY <2>7 DEF Writes, Added, PathOf, p
    <3> HIDE DEF w
    <3> QED
      BY <2>3, <2>4, <3>1, RmWrites DEF w
  <2>8. CASE e.op = "OP_PUT"
    <3>1. w = internal_put(d, p, e.inodes[p]) /\ Added(e) = {p}
      BY <2>8 DEF Writes, Added, PathOf, p
    <3> HIDE DEF w
    <3> QED
      BY <2>3, <2>4, <3>1, PutWrites DEF w
  <2>9. CASE e.op = "OP_PUTBATCH"
    <3>1. w = internal_put_batch(d, e.inodes) /\ Added(e) = DOMAIN e.inodes
      BY <2>9 DEF Writes, Added
    <3> HIDE DEF w
    <3> QED
      BY <2>1, <2>2, <2>4, <3>1, PutBatchWrites DEF w
  <2>10. CASE e.op = "OP_PUTOKBATCH"
    <3>1. /\ w = internal_put_ok_batch(d, e.inodes)
          /\ Added(e) = DOMAIN e.inodes \cup {Parent[q] : q \in DOMAIN e.inodes}
      BY <2>10 DEF Writes, Added
    <3> HIDE DEF w
    <3> QED
      BY <2>1, <2>2, <2>4, <3>1, PutOkBatchWrites DEF w
  <2> QED
    BY <1>2, <2>5, <2>6, <2>7, <2>8, <2>9, <2>10 DEF OpTypes
<1> QED
  BY <1>1, <1>2, EntryShape

-----------------------------------------------------------------------------
(* Handlers                                                                *)

\* An idle handler holds no request.
LEMMA IdleIsNotActive == Idle \notin Active
  BY DEF Idle, Active, RequestOps

\* What a handler prepares for one path.
LEMMA PreparedInode ==
  ASSUME TypeInv, NEW c \in Active, NEW p \in Paths
  PROVE  /\ Prepared(c, p) \in CleanInode
         /\ NoDangling(db[c.node]) => ListsOnly(Prepared(c, p), Rec(db[c.node]))
<1> DEFINE d == db[c.node]
           g == get_inode(d, p)
<1>1. /\ d \in Store /\ clock \in Nat /\ LOCK_REFRESH_INTERVAL \in Nat
      /\ clock + LOCK_REFRESH_INTERVAL \in Nat
      /\ c.op \in RequestOps /\ c.blocks \subseteq Blocks /\ c.id \in AggIds \cup {NoAgg}
  BY NamespaceAssumption DEF TypeInv, Active
<1>2. g \in CleanInode /\ (NoDangling(d) => ListsOnly(g, Rec(d)))
  BY <1>1, Reads, ReadsListed
<1> HIDE DEF g
<1>3. /\ FileSub(c.blocks) \in [Items -> 0..1]
      /\ \A q \in Paths, k \in BOOLEAN : FileSub(c.blocks)[Dentry(q, k)] = 0
  <2>1. \A q \in Paths, k \in BOOLEAN : Dentry(q, k) \in Paths \X BOOLEAN
    BY DEF Dentry
  <2>2. \A x \in Paths \X BOOLEAN : x \in Items /\ x \notin c.blocks
    BY <1>1, NamespaceAssumption DEF Items
  <2> QED
    BY <2>1, <2>2 DEF FileSub
<1>4. CASE c.op = "mkdir"
  BY <1>4, ConstantInodes DEF Prepared
<1>5. CASE c.op = "rm"
  BY <1>5, ConstantInodes DEF Prepared, prepare_rm
<1>6. CASE c.op \in {"put", "put_batch"}
  <2>1. Prepared(c, p) = update_ddl_lock([g EXCEPT !.is_directory = FALSE, !.valid = TRUE], clock)
    BY <1>6 DEF Prepared, prepare_put, g
  <2>2. Prepared(c, p) \in CleanInode /\ Prepared(c, p).sub = g.sub
    BY <1>1, <1>2, <2>1 DEF CleanInode, update_ddl_lock
  <2> QED
    BY <1>2, <2>2 DEF ListsOnly
<1>7. CASE c.op = "update_lock"
  <2>1. Prepared(c, p) = update_ddl_lock(g, clock)
    BY <1>7 DEF Prepared, g
  <2>2. Prepared(c, p) \in CleanInode /\ Prepared(c, p).sub = g.sub
    BY <1>1, <1>2, <2>1 DEF CleanInode, update_ddl_lock
  <2> QED
    BY <1>2, <2>2 DEF ListsOnly
<1>8. CASE c.op \in {"put_ok", "put_ok_batch"}
  <2>1. Prepared(c, p) = IF c.op = "put_ok" THEN [g EXCEPT !.sub = FileSub(c.blocks)]
                         ELSE [[g EXCEPT !.sub = FileSub(c.blocks)] EXCEPT !.agg_inode_id = c.id]
    BY <1>8 DEF Prepared, prepare_put_ok, g
  <2>2. Prepared(c, p) \in CleanInode /\ Prepared(c, p).sub = FileSub(c.blocks)
    BY <1>1, <1>2, <1>3, <2>1 DEF CleanInode
  <2> QED
    BY <1>3, <2>2 DEF ListsOnly
<1> QED
  BY <1>1, <1>4, <1>5, <1>6, <1>7, <1>8 DEF RequestOps

\* What it proposes.
LEMMA ProposalsOK ==
  ASSUME NEW op \in RequestOps, NEW inodes \in InodeMaps, NEW id,
         op = "put_ok_batch" => id \in AggIds,
         NEW R,
         \A p \in DOMAIN inodes : ListsOnly(inodes[p], R),
         op = "mkdir" => \A p \in DOMAIN inodes : Parent[p] \in R \cup {Root}
  PROVE  /\ Proposals(op, inodes, id) \in Seq(Entry)
         /\ \A i \in 1..Len(Proposals(op, inodes, id)) :
               EntryOK(Proposals(op, inodes, id)[i], R)
<1>1. DOMAIN inodes \in SUBSET Paths
  BY DEF InodeMaps
<1>2. \A t \in OpTypes :
        /\ [op |-> t, inodes |-> inodes] \in Entry
        /\ (t = "OP_MKDIR" => op = "mkdir") => EntryOK([op |-> t, inodes |-> inodes], R)
  BY DEF Entry, EntryOK
<1>3. op # "put_ok_batch" =>
        \E t \in OpTypes : /\ t = "OP_MKDIR" => op = "mkdir"
                           /\ Proposals(op, inodes, id) = <<[op |-> t, inodes |-> inodes]>>
  BY DEF Proposals, RequestOps, OpTypes
<1>4. CASE op # "put_ok_batch"
  <2>1. PICK t \in OpTypes :
          /\ t = "OP_MKDIR" => op = "mkdir"
          /\ Proposals(op, inodes, id) = <<[op |-> t, inodes |-> inodes]>>
    BY <1>3, <1>4
  <2> DEFINE e == [op |-> t, inodes |-> inodes]
  <2>2. e \in Entry /\ EntryOK(e, R)
    BY <1>2, <2>1
  <2> HIDE DEF e
  <2>3. Proposals(op, inodes, id) = <<e>>
    BY <2>1 DEF e
  <2> QED
    BY <2>2, <2>3
<1>5. CASE op = "put_ok_batch"
  <2> DEFINE e1 == [op |-> "OP_PUTOKBATCH", inodes |-> inodes]
             e2 == [op |-> "OP_PUTAGG", id |-> id, files |-> DOMAIN inodes]
  <2>1. Proposals(op, inodes, id) = <<e1, e2>>
    BY <1>5 DEF Proposals
  <2>2. e1 \in Entry /\ EntryOK(e1, R)
    BY <1>2 DEF OpTypes
  <2>3. e2 \in Entry /\ EntryOK(e2, R)
    BY <1>1, <1>5 DEF Entry, EntryOK
  <2> HIDE DEF e1, e2
  <2> QED
    BY <2>1, <2>2, <2>3
<1> QED
  BY <1>4, <1>5

\* A handler in order stays so when the history grows.
LEMMA SlotOKMore ==
  ASSUME NEW c, NEW R, NEW S, R \subseteq S, NEW len \in Nat, NEW m \in Nat, len <= m,
         SlotOK(c, R, len)
  PROVE  SlotOK(c, S, m)
<1>1. CASE c = Idle
  BY <1>1 DEF SlotOK
<1>2. CASE c # Idle
  <2>1. c \in Active /\ c.wait \in Nat
    BY <1>2 DEF SlotOK, Active
  <2>2. HandlerOK(c, S)
    <3>1. HandlerOK(c, R)
      BY <1>2 DEF SlotOK
    <3>2. \A i \in 1..Len(c.entries) : EntryOK(c.entries[i], S)
      BY <3>1, EntryOKMore DEF HandlerOK
    <3> QED
      BY <3>1, <3>2, ListsMore DEF HandlerOK
  <2> QED
    BY <1>2, <2>1, <2>2 DEF SlotOK
<1> QED
  BY <1>1, <1>2

\* One handler changes its state, the log stays as it is.
LEMMA OneSlot ==
  ASSUME IInv, NEW h \in Handlers, NEW c, SlotOK(c, LastRec, Len(log)),
         rpc' = [rpc EXCEPT ![h] = c],
         UNCHANGED <<log, hist, db, applied, up, leader, clock, faults>>,
         calls' \in 0..MaxCalls
  PROVE  IInv'
<1>1. TypeInv'
  BY DEF IInv, TypeInv, SlotOK
<1>2. LastRec' = LastRec /\ HistInv' /\ DbInv'
  BY DEF IInv, HistInv, DbInv, LastRec
<1>3. RpcInv'
  BY <1>2 DEF IInv, TypeInv, RpcInv
<1> QED
  BY <1>1, <1>2, <1>3 DEF IInv

\* IInv holds at the start.
LEMMA InitInv == Init => IInv
<1> SUFFICES ASSUME Init PROVE IInv
  OBVIOUS
<1>1. EmptyDatabase \in Store /\ Rec(EmptyDatabase) = {}
  BY DEF EmptyDatabase, Store, Rec
<1>2. hist = <<EmptyDatabase>> /\ Len(hist) = 1 /\ hist[1] = EmptyDatabase
  BY DEF Init
<1>3. TypeInv
  BY <1>1, <1>2, NamenodeAssumption DEF Init, TypeInv
<1>4. HistInv
  BY <1>1, <1>2 DEF Init, HistInv, LastRec
<1>5. DbInv
  BY <1>1, <1>2 DEF Init, DbInv, LastRec, NoDangling
<1>6. RpcInv
  BY DEF Init, RpcInv, SlotOK
<1> QED
  BY <1>3, <1>4, <1>5, <1>6 DEF IInv

\* A request arrives: what mkdir has read of the parent is a record of the
\* history too.
LEMMA CallInv ==
  ASSUME IInv, NEW h \in Handlers, NEW n \in Nodes, NEW r \in Requests, Call(h, n, r)
  PROVE  IInv'
<1> DEFINE id == IF r.op = "put_ok_batch" THEN <<clock, n>> ELSE NoAgg
           c == Busy(r, n, id)
<1>1. r.op \in RequestOps /\ r.paths \subseteq Paths /\ r.blocks \subseteq Blocks
  BY NamenodeAssumption DEF Request
<1>2. id \in AggIds \cup {NoAgg} /\ (r.op = "put_ok_batch" => id \in AggIds)
  BY NamenodeAssumption DEF IInv, TypeInv
<1> HIDE DEF id
<1>3. c \in Active
  BY <1>1, <1>2 DEF Busy, Active
<1>4. /\ c.op = r.op /\ c.todo = r.paths /\ c.inodes = << >> /\ c.entries = << >>
      /\ c.wait = 0 /\ c.id = id
  BY DEF Busy
<1>5. r.op = "mkdir" => \A p \in r.paths : Parent[p] \in LastRec \cup {Root}
  BY <1>1, NamespaceAssumption DEF Call, ParentExists, path_exists, IInv, DbInv, Rec
<1> HIDE DEF c
<1>6. HandlerOK(c, LastRec)
  BY <1>4, <1>5 DEF HandlerOK
<1>7. SlotOK(c, LastRec, Len(log))
  BY <1>2, <1>3, <1>4, <1>6 DEF SlotOK, IInv, TypeInv
<1>8. rpc' = [rpc EXCEPT ![h] = c]
  BY DEF Call, c, id
<1>9. calls' \in 0..MaxCalls
  BY NamenodeAssumption DEF Call, IInv, TypeInv
<1> QED
  BY <1>7, <1>8, <1>9, OneSlot DEF Call

\* A busy handler, with its parts.
LEMMA BusyHandler ==
  ASSUME IInv, NEW h \in Handlers, rpc[h] # Idle
  PROVE  /\ rpc[h] \in Active
         /\ rpc[h].wait <= Len(log)
         /\ rpc[h].op = "put_ok_batch" => rpc[h].id \in AggIds
         /\ HandlerOK(rpc[h], LastRec)
  BY DEF IInv, RpcInv, SlotOK

\* One path is prepared: the handler reads a store whose records are all in
\* the history.
LEMMA PrepareInv ==
  ASSUME IInv, NEW h \in Handlers, NEW p \in Paths, Prepare(h, p)
  PROVE  IInv'
<1> DEFINE c == rpc[h]
           now == [q \in DOMAIN c.inodes \cup {p} |->
                     IF q = p THEN Prepared(c, p) ELSE c.inodes[q]]
           ready == c.op = "update_lock" \/ c.todo = {p}
           new == [c EXCEPT !.todo = @ \ {p},
                            !.inodes = IF ready THEN << >> ELSE now,
                            !.entries = IF ready THEN Proposals(c.op, now, c.id) ELSE @]
<1>1. c # Idle /\ p \in c.todo
  BY DEF Prepare
<1>2. /\ c \in Active
      /\ c.wait <= Len(log)
      /\ c.op = "put_ok_batch" => c.id \in AggIds
      /\ HandlerOK(c, LastRec)
  BY <1>1, BusyHandler
<1> HIDE DEF c
<1>3. Prepared(c, p) \in CleanInode /\ ListsOnly(Prepared(c, p), LastRec)
  <2>1. c.node \in Nodes
    BY <1>2 DEF Active
  <2>2. NoDangling(db[c.node]) /\ Rec(db[c.node]) \subseteq LastRec
    BY <2>1 DEF IInv, DbInv
  <2>3. TypeInv
    BY DEF IInv
  <2> QED
    BY <1>2, <2>2, <2>3, PreparedInode, ListsMore
<1>4. /\ DOMAIN c.inodes \subseteq Paths
      /\ \A q \in DOMAIN c.inodes : c.inodes[q] \in CleanInode
  BY <1>2 DEF Active, InodeMaps
<1>5. now \in InodeMaps /\ DOMAIN now = DOMAIN c.inodes \cup {p}
  <2>1. now \in [DOMAIN c.inodes \cup {p} -> CleanInode]
    BY <1>3, <1>4
  <2>2. DOMAIN c.inodes \cup {p} \in (SUBSET Paths) \ {{}}
    BY <1>4
  <2> HIDE DEF now
  <2> QED
    BY <2>1, <2>2 DEF InodeMaps
<1>6. \A q \in DOMAIN now : ListsOnly(now[q], LastRec)
  BY <1>2, <1>3 DEF HandlerOK
<1>7. c.op = "mkdir" => \A q \in c.todo \cup DOMAIN now : Parent[q] \in LastRec \cup {Root}
  <2> HIDE DEF now
  <2> QED
    BY <1>1, <1>2, <1>5 DEF HandlerOK
<1>8. rpc' = [rpc EXCEPT ![h] = new]
  BY DEF Prepare, c
<1> HIDE DEF now
<1>9. /\ Proposals(c.op, now, c.id) \in Seq(Entry)
      /\ \A i \in 1..Len(Proposals(c.op, now, c.id)) : EntryOK(Proposals(c.op, now, c.id)[i], LastRec)
  <2>1. c.op \in RequestOps
    BY <1>2 DEF Active
  <2> QED
    BY <1>2, <1>5, <1>6, <1>7, <2>1, ProposalsOK
<1>10. /\ new \in Active
       /\ new.op = c.op /\ new.wait = c.wait /\ new.id = c.id
       /\ new.todo = c.todo \ {p}
       /\ new.inodes = IF ready THEN << >> ELSE now
       /\ new.entries = IF ready THEN Proposals(c.op, now, c.id) ELSE c.entries
  BY <1>2, <1>5, <1>9 DEF Active
<1> HIDE DEF new
<1>11. HandlerOK(new, LastRec)
  <2>1. CASE ready
    BY <1>7, <1>9, <1>10, <2>1 DEF HandlerOK
  <2>2. CASE ~ready
    BY <1>2, <1>6, <1>7, <1>10, <2>2 DEF HandlerOK
  <2> QED
    BY <2>1, <2>2
<1>12. SlotOK(new, LastRec, Len(log))
  BY <1>2, <1>10, <1>11 DEF SlotOK
<1> QED
  BY <1>8, <1>12, OneSlot DEF Prepare, IInv, TypeInv

\* The steps that end a request.
LEMMA AnswerInv ==
  ASSUME IInv, NEW h \in Handlers,
         Respond(h) \/ \E p \in Paths : PrepareThrows(h, p)
  PROVE  IInv'
<1>1. SlotOK(Idle, LastRec, Len(log))
  BY DEF SlotOK
<1>2. /\ rpc' = [rpc EXCEPT ![h] = Idle]
      /\ UNCHANGED <<log, hist, db, applied, up, leader, clock, calls, faults>>
  BY DEF Respond, PrepareThrows
<1>3. calls' \in 0..MaxCalls
  BY <1>2 DEF IInv, TypeInv
<1> QED
  BY <1>1, <1>2, <1>3, OneSlot

\* Dropping the first of the entries to be proposed.
LEMMA DropEntry ==
  ASSUME NEW c \in Active, c.entries # << >>, NEW w \in Nat, NEW R, HandlerOK(c, R)
  PROVE  LET new == [c EXCEPT !.entries = Tail(@), !.wait = w]
         IN  /\ new \in Active /\ HandlerOK(new, R)
             /\ new.op = c.op /\ new.id = c.id /\ new.wait = w
             /\ Head(c.entries) \in Entry /\ EntryOK(Head(c.entries), R)
<1> DEFINE new == [c EXCEPT !.entries = Tail(@), !.wait = w]
<1>1. c.entries \in Seq(Entry)
  BY DEF Active
<1>2. /\ Tail(c.entries) \in Seq(Entry) /\ Head(c.entries) = c.entries[1]
      /\ Head(c.entries) \in Entry /\ 1 \in 1..Len(c.entries)
      /\ \A i \in 1..Len(Tail(c.entries)) :
           /\ i + 1 \in 1..Len(c.entries)
           /\ Tail(c.entries)[i] = c.entries[i + 1]
  BY <1>1
<1>3. /\ new \in Active /\ new.entries = Tail(c.entries) /\ new.inodes = c.inodes
      /\ new.todo = c.todo /\ new.op = c.op /\ new.id = c.id /\ new.wait = w
  BY <1>2 DEF Active
<1> HIDE DEF new
<1>4. HandlerOK(new, R)
  BY <1>2, <1>3 DEF HandlerOK
<1>5. EntryOK(Head(c.entries), R)
  BY <1>2 DEF HandlerOK
<1> QED
  BY <1>2, <1>3, <1>4, <1>5 DEF new

\* A handler whose propose failed has one entry less, and the log stays.
LEMMA ProposeFailsInv ==
  ASSUME IInv, NEW h \in Handlers, ProposeFails(h)
  PROVE  IInv'
<1> DEFINE c == rpc[h]
           new == [c EXCEPT !.entries = Tail(@), !.wait = c.wait]
<1>1. c # Idle /\ c.entries # << >>
  BY DEF ProposeFails
<1>2. c \in Active /\ c.wait <= Len(log) /\ HandlerOK(c, LastRec)
      /\ (c.op = "put_ok_batch" => c.id \in AggIds)
  BY <1>1, BusyHandler
<1>3. c.wait \in Nat
  BY <1>2 DEF Active
<1>4. rpc' = [rpc EXCEPT ![h] = new]
  <2>1. [c EXCEPT !.entries = Tail(@)] = new
    BY <1>2 DEF Active
  <2> QED
    BY <2>1 DEF ProposeFails
<1>5. SlotOK(new, LastRec, Len(log))
  <2> HIDE DEF c
  <2> QED
    BY <1>1, <1>2, <1>3, DropEntry DEF SlotOK
<1> QED
  BY <1>4, <1>5, OneSlot DEF ProposeFails, IInv, TypeInv

\* An entry is committed: the history grows by one store, and so do the paths
\* it has records of.
LEMMA ProposeInv ==
  ASSUME IInv, NEW h \in Handlers, Propose(h)
  PROVE  IInv'
<1> DEFINE c == rpc[h]
           e == Head(c.entries)
           L == Len(hist)
           w == Writes(hist[L], e)
           wait == IF c.wait = 0 THEN Len(log) + 1 ELSE c.wait
           new == [c EXCEPT !.entries = Tail(@), !.wait = wait]
<1>1. c # Idle /\ c.entries # << >>
  BY DEF Propose
<1>2. /\ c \in Active /\ c.wait <= Len(log) /\ HandlerOK(c, LastRec)
      /\ c.op = "put_ok_batch" => c.id \in AggIds
  BY <1>1, BusyHandler
<1>3. log \in Seq(Entry) /\ hist \in Seq(Store) /\ L = Len(log) + 1 /\ Len(log) \in Nat
  BY DEF IInv, TypeInv
<1>4. c.wait \in Nat /\ wait \in Nat /\ wait <= Len(log) + 1
  BY <1>2, <1>3 DEF Active
<1>5. /\ log' = Append(log, e) /\ hist' = Append(hist, w)
      /\ rpc' = [rpc EXCEPT ![h] = new]
      /\ UNCHANGED <<db, applied, up, leader, clock, calls, faults>>
  <2>1. [c EXCEPT !.entries = Tail(@), !.wait = IF @ = 0 THEN Len(log) + 1 ELSE @] = new
    BY <1>2 DEF Active
  <2> QED
    BY <2>1 DEF Propose
<1> HIDE DEF c, wait
<1>6. /\ new \in Active /\ HandlerOK(new, LastRec)
      /\ new.op = c.op /\ new.id = c.id /\ new.wait = wait
      /\ e \in Entry /\ EntryOK(e, LastRec)
  BY <1>1, <1>2, <1>4, DropEntry
<1> HIDE DEF new, e
<1>7. hist[L] \in Store /\ LastRec = Rec(hist[L])
  BY <1>3 DEF LastRec
<1>8. w \in Store /\ Rec(w) = LastRec \cup Added(e)
  BY <1>6, <1>7, ApplyEntry
<1> HIDE DEF w
<1>9. /\ Len(log') = Len(log) + 1 /\ Len(hist') = L + 1
      /\ log' \in Seq(Entry) /\ hist' \in Seq(Store)
      /\ \A i \in 1..Len(log) : log'[i] = log[i]
      /\ log'[Len(log) + 1] = e
      /\ \A i \in 1..L : hist'[i] = hist[i]
      /\ hist'[L + 1] = w
  BY <1>3, <1>5, <1>6, <1>8
<1> HIDE DEF L
<1>10. LastRec' = Rec(w) /\ LastRec \subseteq LastRec'
  BY <1>8, <1>9 DEF LastRec
<1>11. TypeInv'
  <2>1. rpc' \in [Handlers -> Active \cup {Idle}]
    BY <1>5, <1>6 DEF IInv, TypeInv
  <2>2. \A n \in Nodes : applied'[n] <= Len(log')
    BY <1>3, <1>5, <1>9 DEF IInv, TypeInv
  <2> QED
    BY <1>3, <1>5, <1>9, <2>1, <2>2 DEF IInv, TypeInv
<1>12. HistInv'
  <2>1. Rec(hist'[1]) = {}
    BY <1>3, <1>9 DEF IInv, HistInv
  <2>2. ASSUME NEW i \in 1..Len(log')
        PROVE  Rec(hist'[i + 1]) = Rec(hist'[i]) \cup Added(log'[i]) /\ EntryOK(log'[i], Rec(hist'[i]))
    <3>1. CASE i \in 1..Len(log)
      <4>1. i \in 1..L /\ i + 1 \in 1..L
        BY <1>3, <3>1
      <4>2. hist'[i] = hist[i] /\ hist'[i + 1] = hist[i + 1] /\ log'[i] = log[i]
        BY <1>9, <3>1, <4>1
      <4> QED
        BY <3>1, <4>2 DEF IInv, HistInv
    <3>2. CASE i = Len(log) + 1
      <4>1. hist'[i] = hist[L] /\ hist'[i + 1] = w /\ log'[i] = e
        BY <1>3, <1>9, <3>2
      <4> QED
        BY <1>6, <1>7, <1>8, <4>1
    <3> QED
      <4>1. i \in 1..(Len(log) + 1)
        BY <1>9
      <4> QED
        BY <1>3, <3>1, <3>2, <4>1
  <2>3. ASSUME NEW i \in 1..Len(hist') PROVE Rec(hist'[i]) \subseteq LastRec'
    <3>1. CASE i \in 1..L
      <4>1. Rec(hist[i]) \subseteq LastRec
        BY <3>1 DEF IInv, HistInv, L
      <4> QED
        BY <1>9, <1>10, <3>1, <4>1
    <3>2. CASE i = L + 1
      BY <1>9, <1>10, <3>2
    <3> QED
      BY <1>3, <1>9, <3>1, <3>2
  <2> QED
    BY <2>1, <2>2, <2>3 DEF HistInv
<1>13. DbInv'
  <2> SUFFICES ASSUME NEW n \in Nodes
               PROVE  /\ Rec(hist'[applied[n] + 1]) \subseteq Rec(db[n])
                      /\ Rec(db[n]) \subseteq LastRec'
                      /\ NoDangling(db[n])
    BY <1>5 DEF DbInv
  <2>1. applied[n] + 1 \in 1..L
    BY <1>3 DEF IInv, TypeInv
  <2> QED
    BY <1>9, <1>10, <2>1 DEF IInv, DbInv
<1>14. RpcInv'
  <2> SUFFICES ASSUME NEW g \in Handlers PROVE SlotOK(rpc'[g], LastRec', Len(log'))
    BY DEF RpcInv
  <2>1. CASE g = h
    <3>1. SlotOK(new, LastRec, Len(log) + 1)
      BY <1>2, <1>4, <1>6 DEF SlotOK
    <3>2. rpc'[g] = new
      BY <1>5, <2>1 DEF IInv, TypeInv
    <3> QED
      BY <1>3, <1>9, <1>10, <3>1, <3>2, SlotOKMore
  <2>2. CASE g # h
    <3>1. rpc'[g] = rpc[g] /\ SlotOK(rpc[g], LastRec, Len(log))
      BY <1>5, <2>2 DEF IInv, TypeInv, RpcInv
    <3> QED
      BY <1>3, <1>9, <1>10, <3>1, SlotOKMore
  <2> QED
    BY <2>1, <2>2
<1> QED
  BY <1>11, <1>12, <1>13, <1>14 DEF IInv

\* A replica applies its next entry, maybe again: its records are between
\* those of the history at that entry and those of the whole history.
LEMMA OnApplyInv ==
  ASSUME IInv, NEW n \in Nodes, OnApply(n)
  PROVE  IInv'
<1> DEFINE a == applied[n]
           e == log[a + 1]
           w == Writes(db[n], e)
<1>1. /\ a \in Nat /\ a < Len(log) /\ a + 1 \in 1..Len(log) /\ Len(log) \in Nat
      /\ Len(hist) = Len(log) + 1
      /\ e \in Entry /\ db[n] \in Store
  BY DEF IInv, TypeInv, OnApply
<1>2. /\ Rec(hist[a + 2]) = Rec(hist[a + 1]) \cup Added(e)
      /\ EntryOK(e, Rec(hist[a + 1]))
  <2>1. (a + 1) + 1 = a + 2
    BY <1>1
  <2> QED
    BY <1>1, <2>1 DEF IInv, HistInv
<1>3. Rec(hist[a + 2]) \subseteq LastRec
  BY <1>1 DEF IInv, HistInv
<1>4. Rec(hist[a + 1]) \subseteq Rec(db[n]) /\ Rec(db[n]) \subseteq LastRec /\ NoDangling(db[n])
  BY DEF IInv, DbInv
<1>5. /\ db' = [db EXCEPT ![n] = w]
      /\ applied' = [applied EXCEPT ![n] = a + 1]
      /\ UNCHANGED <<log, hist, up, leader, clock, rpc, calls, faults>>
  BY DEF OnApply
<1> HIDE DEF e
<1>6. EntryOK(e, Rec(db[n]))
  BY <1>2, <1>4, EntryOKMore
<1>7. w \in Store /\ Rec(w) = Rec(db[n]) \cup Added(e) /\ NoDangling(w)
  BY <1>1, <1>4, <1>6, ApplyEntry
<1> HIDE DEF w
<1>8. TypeInv'
  <2>1. db' \in [Nodes -> Store] /\ applied' \in [Nodes -> Nat]
    BY <1>1, <1>5, <1>7 DEF IInv, TypeInv
  <2>2. \A m \in Nodes : applied'[m] <= Len(log)
    BY <1>1, <1>5 DEF IInv, TypeInv
  <2> QED
    BY <1>5, <2>1, <2>2 DEF IInv, TypeInv
<1>9. LastRec' = LastRec /\ HistInv' /\ RpcInv'
  BY <1>5 DEF IInv, HistInv, RpcInv, LastRec
<1>10. DbInv'
  <2> SUFFICES ASSUME NEW m \in Nodes
               PROVE  /\ Rec(hist[applied'[m] + 1]) \subseteq Rec(db'[m])
                      /\ Rec(db'[m]) \subseteq LastRec
                      /\ NoDangling(db'[m])
    BY <1>5, <1>9 DEF DbInv
  <2>1. CASE m = n
    <3>1. db'[m] = w /\ applied'[m] + 1 = a + 2
      BY <1>1, <1>5, <2>1 DEF IInv, TypeInv
    <3> QED
      BY <1>2, <1>3, <1>4, <1>7, <3>1
  <2>2. CASE m # n
    <3>1. db'[m] = db[m] /\ applied'[m] = applied[m]
      BY <1>5, <2>2 DEF IInv, TypeInv
    <3> QED
      BY <3>1 DEF IInv, DbInv
  <2> QED
    BY <2>1, <2>2
<1> QED
  BY <1>8, <1>9, <1>10 DEF IInv

\* A namenode goes down: its handlers are forgotten.
LEMMA DownInv ==
  ASSUME IInv, NEW n \in Nodes, Abort(n) \/ Crash(n)
  PROVE  IInv'
<1>1. Gone(n) /\ faults' \in 0..MaxFaults
  BY NamenodeAssumption DEF Abort, Crash, IInv, TypeInv
<1>2. /\ UNCHANGED <<log, hist, db, applied, clock, calls>>
      /\ up' \in [Nodes -> BOOLEAN] /\ leader' \in Nodes \cup {NoLeader}
  BY <1>1 DEF Gone, IInv, TypeInv
<1>3. /\ rpc' \in [Handlers -> Active \cup {Idle}]
      /\ \A h \in Handlers : rpc'[h] \in {Idle, rpc[h]}
  BY <1>1 DEF Gone, IInv, TypeInv
<1>4. TypeInv'
  BY <1>1, <1>2, <1>3 DEF IInv, TypeInv
<1>5. LastRec' = LastRec /\ HistInv' /\ DbInv'
  BY <1>2 DEF IInv, HistInv, DbInv, LastRec
<1>6. RpcInv'
  BY <1>2, <1>3, <1>5 DEF IInv, RpcInv, SlotOK
<1> QED
  BY <1>4, <1>5, <1>6 DEF IInv

\* The replay starts at the empty beginning of the history.
LEMMA RestartInv ==
  ASSUME IInv, NEW n \in Nodes, Restart(n)
  PROVE  IInv'
<1>1. TypeInv'
  BY DEF Restart, IInv, TypeInv
<1>2. LastRec' = LastRec /\ HistInv' /\ RpcInv'
  BY DEF Restart, IInv, HistInv, RpcInv, LastRec
<1>3. DbInv'
  <2> SUFFICES ASSUME NEW m \in Nodes
               PROVE  /\ Rec(hist[applied'[m] + 1]) \subseteq Rec(db[m])
                      /\ Rec(db[m]) \subseteq LastRec
                      /\ NoDangling(db[m])
    BY <1>2 DEF Restart, DbInv
  <2>1. applied'[m] = IF m = n THEN 0 ELSE applied[m]
    BY DEF Restart, IInv, TypeInv
  <2>2. Rec(hist[0 + 1]) = {}
    BY DEF IInv, HistInv
  <2> QED
    BY <2>1, <2>2 DEF IInv, DbInv
<1> QED
  BY <1>1, <1>2, <1>3 DEF IInv

\* Elections and time leave stores, log and handlers alone.
LEMMA RestInv ==
  ASSUME IInv, (\E n \in Nodes : Elect(n)) \/ StepDown \/ Tick \/ UNCHANGED vars
  PROVE  IInv'
<1>1. UNCHANGED <<log, hist, db, applied, up, rpc, calls>>
  BY DEF Elect, StepDown, Tick, vars
<1>2. /\ leader' \in Nodes \cup {NoLeader}
      /\ clock' \in 1..MaxTime
      /\ faults' \in 0..MaxFaults
  BY NamenodeAssumption DEF Elect, StepDown, Tick, vars, IInv, TypeInv
<1>3. TypeInv'
  BY <1>1, <1>2 DEF IInv, TypeInv
<1>4. LastRec' = LastRec /\ HistInv' /\ DbInv' /\ RpcInv'
  BY <1>1 DEF IInv, HistInv, DbInv, RpcInv, LastRec
<1> QED
  BY <1>3, <1>4 DEF IInv

-----------------------------------------------------------------------------
(* The theorems                                                            *)

\* Every step keeps IInv.
LEMMA NextInv == IInv /\ [Next]_vars => IInv'
<1> SUFFICES ASSUME IInv, [Next]_vars PROVE IInv'
  OBVIOUS
<1>1. CASE \E h \in Handlers, n \in Nodes, r \in Requests : Call(h, n, r)
  BY <1>1, CallInv
<1>2. CASE \E h \in Handlers, p \in Paths : Prepare(h, p)
  BY <1>2, PrepareInv
<1>3. CASE \E h \in Handlers : Respond(h) \/ \E p \in Paths : PrepareThrows(h, p)
  BY <1>3, AnswerInv
<1>4. CASE \E h \in Handlers : Propose(h)
  BY <1>4, ProposeInv
<1>5. CASE \E h \in Handlers : ProposeFails(h)
  BY <1>5, ProposeFailsInv
<1>6. CASE \E n \in Nodes : OnApply(n)
  BY <1>6, OnApplyInv
<1>7. CASE \E n \in Nodes : Abort(n) \/ Crash(n)
  BY <1>7, DownInv
<1>8. CASE \E n \in Nodes : Restart(n)
  BY <1>8, RestartInv
<1>9. CASE (\E n \in Nodes : Elect(n)) \/ StepDown \/ Tick \/ UNCHANGED vars
  BY <1>9, RestInv
<1> QED
  BY <1>1, <1>2, <1>3, <1>4, <1>5, <1>6, <1>7, <1>8, <1>9 DEF Next, Handle

\* IInv is an invariant of Namenode.
THEOREM Invariance == Spec => []IInv
  BY InitInv, NextInv, PTL DEF Spec

\* Type correctness of the namenode group: stores, log, history and handler
\* states keep their shapes through prepare, propose, on_apply, crash and
\* replay.
THEOREM TypeCorrect == Spec => []TypeOK
<1>1. IInv => TypeOK
  <2> SUFFICES ASSUME IInv PROVE TypeOK
    OBVIOUS
  <2>1. \A e \in Entry : IsEntry(e)
    <3> TAKE e \in Entry
    <3>1. CASE e \in [op : OpTypes, inodes : InodeMaps]
      <4>1. DOMAIN e = {"op", "inodes"} /\ e.op \in OpTypes /\ e.op # "OP_PUTAGG"
        BY <3>1 DEF OpTypes
      <4>2. IsInodeMap(e.inodes) /\ DOMAIN e.inodes # {}
        BY <4>1, EntryShape, CleanIsInode DEF IsInodeMap
      <4> QED
        BY <4>1, <4>2 DEF IsEntry
    <3>2. CASE e \in [op : {"OP_PUTAGG"}, id : AggIds, files : SUBSET Paths]
      BY <3>2 DEF IsEntry
    <3> QED
      BY <3>1, <3>2 DEF Entry
  <2>2. Store \subseteq Database
    BY CleanIsInode DEF Store, Database
  <2>3. /\ \A i \in 1..Len(log) : IsEntry(log[i])
        /\ hist \in Seq(Database) /\ Len(hist) = Len(log) + 1
    BY <2>1, <2>2 DEF IInv, TypeInv
  <2>4. db \in [Nodes -> Database] /\ applied \in [Nodes -> 0..Len(log)]
    BY <2>2 DEF IInv, TypeInv
  <2>5. ASSUME NEW h \in Handlers, rpc[h] # Idle
        PROVE  /\ rpc[h].op \in RequestOps
               /\ rpc[h].node \in Nodes
               /\ rpc[h].todo \subseteq Paths
               /\ IsInodeMap(rpc[h].inodes)
               /\ \A i \in 1..Len(rpc[h].entries) : IsEntry(rpc[h].entries[i])
               /\ rpc[h].wait \in 0..Len(log)
    <3>1. rpc[h] \in Active /\ rpc[h].wait <= Len(log)
      BY <2>5, BusyHandler
    <3>2. IsInodeMap(rpc[h].inodes)
      <4>1. CASE rpc[h].inodes = << >>
        BY <4>1 DEF IsInodeMap
      <4>2. CASE rpc[h].inodes \in InodeMaps
        BY <4>2, CleanIsInode DEF IsInodeMap, InodeMaps
      <4> QED
        BY <3>1, <4>1, <4>2 DEF Active
    <3>3. rpc[h].entries \in Seq(Entry) /\ rpc[h].wait \in Nat
      BY <3>1 DEF Active
    <3>4. \A i \in 1..Len(rpc[h].entries) : IsEntry(rpc[h].entries[i])
      BY <2>1, <3>3
    <3>5. rpc[h].wait \in 0..Len(log)
      BY <3>1, <3>3 DEF IInv, TypeInv
    <3> QED
      BY <3>1, <3>2, <3>4, <3>5 DEF Active
  <2> QED
    BY <2>3, <2>4, <2>5 DEF TypeOK, IInv, TypeInv
<1> QED
  BY <1>1, Invariance, PTL

\* No listing of any replica ever names anything twice, whatever is replayed:
\* the find() before each push_back is enough.
THEOREM NoDuplicates == Spec => []NoDuplicateDentry
<1>1. IInv => NoDuplicateDentry
  <2> SUFFICES ASSUME IInv, NEW n \in Nodes, NEW q \in Paths, db[n].inodes[q] # NotFound,
                      NEW x \in Items
               PROVE  db[n].inodes[q].sub[x] <= 1
    BY DEF NoDuplicateDentry
  <2>1. db[n] \in Store
    BY DEF IInv, TypeInv
  <2>2. db[n].inodes[q] \in CleanInode
    BY <2>1 DEF Store
  <2>3. db[n].inodes[q].sub[x] \in 0..1
    BY <2>2 DEF CleanInode
  <2> QED
    BY <2>3
<1> QED
  BY <1>1, Invariance, PTL

\* No replica ever lists a path without a record, with any number of requests
\* in flight, stale leaders and replays.
THEOREM NoDanglingEntries == Spec => []DentryHasRecord
<1>1. IInv => DentryHasRecord
  BY DEF IInv, DbInv, NoDangling, ListsOnly, Rec, DentryHasRecord
<1> QED
  BY <1>1, Invariance, PTL

\* A mkdir in the log never fails the assertion of get_parent_inode, however
\* many requests come between its prepare step and its entry.
THEOREM MkdirIsSafe == Spec => []MkdirNeverTrips
<1>1. IInv => MkdirNeverTrips
  <2> SUFFICES ASSUME IInv, NEW i \in 1..Len(log), log[i].op = "OP_MKDIR"
               PROVE  ~Trips(hist[i], log[i])
    BY DEF MkdirNeverTrips
  <2>1. \A p \in DOMAIN log[i].inodes : Parent[p] \in Rec(hist[i]) \cup {Root}
    BY DEF IInv, HistInv, EntryOK
  <2> QED
    BY <2>1 DEF Trips, ParentMissing, Rec
<1> QED
  BY <1>1, Invariance, PTL

=============================================================================
