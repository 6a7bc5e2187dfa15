------------------------ MODULE NamenodeReplicaProofs ------------------------
(***************************************************************************)
(* Replaying the log over a store that is already newer does no harm:      *)
(* a proof of CaughtUpReplicasAgree of module Namenode.                    *)
(*                                                                         *)
(* A store is taken apart into cells: whether a path has a record, the     *)
(* fields of its inode, how often a name occurs in its sub, the aggregate  *)
(* files.  The key fact (SetsOrKeeps) is that what an entry of the log     *)
(* does to a cell is either to set it, to a value that does not depend on  *)
(* the store, or to keep it.  Hence, while a namenode that crashed replays *)
(* the log, each of its cells is what that cell was in some store of the   *)
(* history that is at least as new as the entries replayed so far; when    *)
(* all are replayed there is only one such store.                          *)
(*                                                                         *)
(* A missing parent would be taken for an empty directory, which is no     *)
(* keeping, so the stores of the history have to be healthy as well: no    *)
(* namenode gets past an entry that trips the assertion.                   *)
(*                                                                         *)
(* The second part is about requests one after the other (SerialInv):      *)
(* proofs of ListedChildMatches, LockOpsKeepContent and GrantRespectsLock. *)
(***************************************************************************)
EXTENDS NamenodeProofs, SequenceTheorems

\* A cell: its kind, the path, the name in the sub, the id of an aggregate.
Fields == {"is_directory", "valid", "ddl_lock", "agg_inode_id", "sub"}

Cells == [kind : Fields \cup {"record", "aggs"}, path : Paths, item : Items,
          id : AggIds \cup {NoAgg}]

\* Two inodes agree in a cell.
InodesAgree(i, k, x) ==
  /\ x.kind = "is_directory" => i.is_directory = k.is_directory
  /\ x.kind = "valid"        => i.valid = k.valid
  /\ x.kind = "ddl_lock"     => i.ddl_lock = k.ddl_lock
  /\ x.kind = "agg_inode_id" => i.agg_inode_id = k.agg_inode_id
  /\ x.kind = "sub"          => i.sub[x.item] = k.sub[x.item]

\* Two stores agree in a cell.
Agree(d, w, x) ==
  /\ x.kind = "record" => (x.path \in Rec(d) <=> x.path \in Rec(w))
  /\ x.kind = "aggs" /\ x.id \in AggIds => d.aggs[x.id] = w.aggs[x.id]
  /\ x.kind \in Fields => InodesAgree(get_inode(d, x.path), get_inode(w, x.path), x)

\* Two inodes i and k become j and l: every cell is set to the same value in
\* both, or kept in both.
SetOrKept(i, j, k, l) ==
  \A x \in Cells : InodesAgree(j, l, x) \/ (InodesAgree(j, i, x) /\ InodesAgree(l, k, x))

-----------------------------------------------------------------------------
(* Agreement                                                               *)

\* To agree in a cell is an equivalence.
LEMMA AgreeEquivalence ==
  ASSUME NEW d, NEW w, NEW v, NEW x
  PROVE  /\ Agree(d, d, x)
         /\ Agree(d, w, x) => Agree(w, d, x)
         /\ Agree(d, w, x) /\ Agree(w, v, x) => Agree(d, v, x)
  BY DEF Agree, InodesAgree

\* A store is determined by its cells.
LEMMA CellsDetermine ==
  ASSUME NEW d \in Store, NEW w \in Store, \A x \in Cells : Agree(d, w, x)
  PROVE  d = w
<1> DEFINE C(k, p, y, id) == [kind |-> k, path |-> p, item |-> y, id |-> id]
<1>1. \A k \in Fields \cup {"record", "aggs"}, p \in Paths, y \in Items, id \in AggIds \cup {NoAgg} :
        Agree(d, w, C(k, p, y, id))
  BY DEF Cells
<1>2. PICK y0 \in Items : TRUE
  <2>1. <<Root, TRUE>> \in Items
    BY NamespaceAssumption DEF Items
  <2> QED
    BY <2>1
<1>3. Rec(d) = Rec(w)
  <2> SUFFICES ASSUME NEW p \in Paths PROVE p \in Rec(d) <=> p \in Rec(w)
    BY DEF Rec
  <2>1. Agree(d, w, C("record", p, y0, NoAgg))
    BY <1>1
  <2> QED
    BY <2>1 DEF Agree
<1>4. \A id \in AggIds : d.aggs[id] = w.aggs[id]
  <2> TAKE id \in AggIds
  <2>1. Agree(d, w, C("aggs", Root, y0, id))
    BY <1>1, NamespaceAssumption
  <2> QED
    BY <2>1 DEF Agree
<1>5. ASSUME NEW p \in Paths PROVE get_inode(d, p) = get_inode(w, p)
  <2> DEFINE i == get_inode(d, p)
             j == get_inode(w, p)
  <2>1. i \in CleanInode /\ j \in CleanInode
    BY Reads
  <2>2. \A k \in Fields, y \in Items : InodesAgree(i, j, C(k, p, y, NoAgg))
    BY <1>1 DEF Agree
  <2> HIDE DEF i, j
  <2>3. /\ i.is_directory = j.is_directory /\ i.valid = j.valid
        /\ i.ddl_lock = j.ddl_lock /\ i.agg_inode_id = j.agg_inode_id
    BY <1>2, <2>2 DEF InodesAgree, Fields
  <2>4. \A y \in Items : i.sub[y] = j.sub[y]
    BY <2>2 DEF InodesAgree, Fields
  <2>5. i.sub = j.sub
    BY <2>1, <2>4 DEF CleanInode
  <2>6. i = j
    BY <2>1, <2>3, <2>5 DEF CleanInode
  <2> QED
    BY <2>6 DEF i, j
<1>6. \A p \in Paths : d.inodes[p] = w.inodes[p]
  BY <1>3, <1>5 DEF Rec, get_inode
<1>7. d.inodes = w.inodes /\ d.aggs = w.aggs
  BY <1>4, <1>6 DEF Store
<1> QED
  BY <1>7 DEF Store

-----------------------------------------------------------------------------
(* What an entry does to a cell                                            *)

\* An inode that replaces both is set in every cell, and inodes left alone
\* are kept.
LEMMA SetAll ==
  ASSUME NEW i, NEW j, NEW k
  PROVE  SetOrKept(i, j, k, j) /\ SetOrKept(i, i, k, k)
<1>1. \A x : InodesAgree(j, j, x) /\ InodesAgree(i, i, x) /\ InodesAgree(k, k, x)
  BY DEF InodesAgree
<1> QED
  BY <1>1 DEF SetOrKept

\* The fields of two inodes other than sub are the same.
SameFields(i, j) ==
  /\ i.is_directory = j.is_directory /\ i.valid = j.valid
  /\ i.ddl_lock = j.ddl_lock /\ i.agg_inode_id = j.agg_inode_id

\* An inode whose other fields stay, and whose sub is set in the items of Y and
\* kept in the others.
LEMMA SubSetOrKept ==
  ASSUME NEW i, NEW k, NEW j, NEW l, SameFields(i, j), SameFields(k, l),
         \A y \in Items : j.sub[y] = l.sub[y] \/ (j.sub[y] = i.sub[y] /\ l.sub[y] = k.sub[y])
  PROVE  SetOrKept(i, j, k, l)
<1> SUFFICES ASSUME NEW x \in Cells
             PROVE  InodesAgree(j, l, x) \/ (InodesAgree(j, i, x) /\ InodesAgree(l, k, x))
  BY DEF SetOrKept
<1>1. x.item \in Items
  BY DEF Cells
<1>2. CASE x.kind = "sub"
  BY <1>1, <1>2 DEF InodesAgree
<1>3. CASE x.kind # "sub"
  BY <1>3 DEF InodesAgree, SameFields
<1> QED
  BY <1>2, <1>3

\* The find before the push_back: the name is there once afterwards.
LEMMA AddSetsOrKeeps ==
  ASSUME NEW i \in CleanInode, NEW k \in CleanInode, NEW y \in Items
  PROVE  SetOrKept(i, AddDentry(i, y), k, AddDentry(k, y))
<1> DEFINE j == AddDentry(i, y)
           l == AddDentry(k, y)
<1>2. i.sub \in [Items -> 0..1] /\ k.sub \in [Items -> 0..1]
  BY DEF CleanInode
<1>3. SameFields(i, j) /\ SameFields(k, l)
  BY DEF AddDentry, CleanInode, SameFields
<1>4. \A z \in Items : j.sub[z] = (IF z = y THEN 1 ELSE i.sub[z]) /\ l.sub[z] = (IF z = y THEN 1 ELSE k.sub[z])
  BY <1>2 DEF AddDentry, CleanInode
<1> HIDE DEF j, l
<1>5. SetOrKept(i, j, k, l)
  BY <1>3, <1>4, SubSetOrKept
<1> QED
  BY <1>5 DEF j, l

\* The two erases: the name is not there afterwards.
LEMMA EraseSetsOrKeeps ==
  ASSUME NEW i \in CleanInode, NEW k \in CleanInode, NEW p \in Paths
  PROVE  SetOrKept(i, EraseDentry(i, p), k, EraseDentry(k, p))
<1> DEFINE j == EraseDentry(i, p)
           l == EraseDentry(k, p)
           names == {Dentry(p, FALSE), Dentry(p, TRUE)}
<1>2. /\ j = [i EXCEPT !.sub = [z \in Items |-> IF z \in names THEN 0 ELSE i.sub[z]]]
      /\ l = [k EXCEPT !.sub = [z \in Items |-> IF z \in names THEN 0 ELSE k.sub[z]]]
  BY DEF EraseDentry
<1> HIDE DEF j, l, names
<1>3. /\ j.sub = [z \in Items |-> IF z \in names THEN 0 ELSE i.sub[z]]
      /\ l.sub = [z \in Items |-> IF z \in names THEN 0 ELSE k.sub[z]]
  BY <1>2 DEF CleanInode
<1>4. SameFields(i, j) /\ SameFields(k, l)
  BY <1>2 DEF CleanInode, SameFields
<1>5. SetOrKept(i, j, k, l)
  BY <1>3, <1>4, SubSetOrKept
<1> QED
  BY <1>5 DEF j, l

\* put_ok sets the sub and the lock and keeps the rest, and so does a put_ok of
\* a batch, which also sets the id of the aggregate when it has one.
LEMMA PutOkSetsOrKeeps ==
  ASSUME NEW d \in Store, NEW w \in Store, NEW p \in Paths, NEW inode \in CleanInode, NEW id
  PROVE  LET r(s) == PutOkRecord(s, p, inode)
         IN  /\ SetOrKept(get_inode(d, p), r(d), get_inode(w, p), r(w))
             /\ SetOrKept(get_inode(d, p), [r(d) EXCEPT !.agg_inode_id = id],
                          get_inode(w, p), [r(w) EXCEPT !.agg_inode_id = id])
<1> DEFINE i == get_inode(d, p)
           k == get_inode(w, p)
           r(s) == PutOkRecord(s, p, inode)
<1>1. i \in CleanInode /\ k \in CleanInode
  BY Reads
<1>2. /\ r(d) = [i EXCEPT !.ddl_lock = 0, !.sub = inode.sub]
      /\ r(w) = [k EXCEPT !.ddl_lock = 0, !.sub = inode.sub]
  BY DEF PutOkRecord, unlock
<1> HIDE DEF i, k, r
<1>3. SetOrKept(i, r(d), k, r(w))
  BY <1>1, <1>2 DEF SetOrKept, InodesAgree, CleanInode
<1>4. SetOrKept(i, [r(d) EXCEPT !.agg_inode_id = id], k, [r(w) EXCEPT !.agg_inode_id = id])
  BY <1>1, <1>2 DEF SetOrKept, InodesAgree, CleanInode
<1> QED
  BY <1>3, <1>4 DEF i, k, r

\* Two stores become v and u by putting inodes at the paths in S: cells are set
\* or kept when those of the inodes are.
LEMMA StoresSetOrKept ==
  ASSUME NEW d \in Store, NEW w \in Store, NEW v, NEW u, NEW S,
         Updates(v, d, S), Updates(u, w, S), v.aggs = d.aggs, u.aggs = w.aggs,
         \A p \in S : SetOrKept(get_inode(d, p), v.inodes[p], get_inode(w, p), u.inodes[p]),
         NEW x \in Cells
  PROVE  Agree(v, u, x) \/ (Agree(v, d, x) /\ Agree(u, w, x))
<1>1. Rec(v) = Rec(d) \cup S /\ Rec(u) = Rec(w) \cup S
  BY UpdateRecords
<1>2. x.path \in Paths
  BY DEF Cells
<1>3. CASE x.kind \in {"record", "aggs"}
  BY <1>1, <1>3 DEF Agree, Fields
<1>4. CASE x.kind \in Fields /\ x.path \in S
  <2>1. get_inode(v, x.path) = v.inodes[x.path] /\ get_inode(u, x.path) = u.inodes[x.path]
    BY <1>4, NotFoundNoInode DEF Updates, get_inode
  <2> QED
    BY <1>4, <2>1 DEF Agree, SetOrKept, Fields
<1>5. CASE x.kind \in Fields /\ x.path \notin S
  <2>1. get_inode(v, x.path) = get_inode(d, x.path) /\ get_inode(u, x.path) = get_inode(w, x.path)
    BY <1>2, <1>5 DEF Updates, get_inode
  <2> QED
    BY <1>5, <2>1 DEF Agree, InodesAgree, Fields
<1> QED
  BY <1>3, <1>4, <1>5 DEF Cells

\* Two stores to which a path's inode and its parent's are put.
LEMMA PutTwoSetsOrKeeps ==
  ASSUME NEW d \in Store, NEW w \in Store, NEW p \in Paths,
         NEW dd \in CleanInode, NEW di \in CleanInode,
         NEW wd \in CleanInode, NEW wi \in CleanInode,
         SetOrKept(get_inode(d, p), di, get_inode(w, p), wi),
         SetOrKept(get_inode(d, Parent[p]), dd, get_inode(w, Parent[p]), wd),
         NEW x \in Cells
  PROVE  LET v == Put2(d, p, dd, di)
             u == Put2(w, p, wd, wi)
         IN  Agree(v, u, x) \/ (Agree(v, d, x) /\ Agree(u, w, x))
<1> DEFINE v == Put2(d, p, dd, di)
           u == Put2(w, p, wd, wi)
<1>1. /\ Updates(v, d, {p, Parent[p]}) /\ v.inodes[p] = di
      /\ p # Parent[p] => v.inodes[Parent[p]] = dd
      /\ Updates(u, w, {p, Parent[p]}) /\ u.inodes[p] = wi
      /\ p # Parent[p] => u.inodes[Parent[p]] = wd
  BY PutTwo
<1>2. v.aggs = d.aggs /\ u.aggs = w.aggs
  BY DEF Put2, Store
<1> HIDE DEF v, u
<1>3. \A q \in {p, Parent[p]} :
        SetOrKept(get_inode(d, q), v.inodes[q], get_inode(w, q), u.inodes[q])
  BY <1>1
<1>4. Agree(v, u, x) \/ (Agree(v, d, x) /\ Agree(u, w, x))
  BY <1>1, <1>2, <1>3, StoresSetOrKept
<1> QED
  BY <1>4 DEF v, u

\* Unless an entry trips, the parent's inode is what get_inode reads.
LEMMA ParentRead ==
  ASSUME NEW d \in Store, NEW p \in Paths, ~ParentMissing(d, p)
  PROVE  get_parent_inode(d, p) = get_inode(d, Parent[p])
  BY DEF ParentMissing, get_parent_inode, get_inode

\* internal_put_ok_batch, path by path.
LEMMA BatchSetsOrKeeps ==
  ASSUME NEW d \in Store, NEW w \in Store, NEW S \in SUBSET Paths, NEW batch \in [S -> CleanInode],
         \A p \in S : ~ParentMissing(d, p) /\ ~ParentMissing(w, p),
         NEW x \in Cells
  PROVE  LET v == internal_put_ok_batch(d, batch)
             u == internal_put_ok_batch(w, batch)
         IN  Agree(v, u, x) \/ (Agree(v, d, x) /\ Agree(u, w, x))
<1> DEFINE parents == {Parent[p] : p \in S}
           added(q) == {filename(p, batch[p]) : p \in {f \in S : Parent[f] = q}}
           more(i, q) == [i EXCEPT !.sub = [y \in Items |->
                            IF y \in added(q) /\ i.sub[y] = 0 THEN 1 ELSE i.sub[y]]]
           base(s, q) == IF s.inodes[q] # NotFound THEN s.inodes[q] ELSE get_default_dir
           rec(s, p) == PutOkRecord(s, p, batch[p])
           file(s, p) == IF batch[p].agg_inode_id = NoAgg THEN rec(s, p)
                         ELSE [rec(s, p) EXCEPT !.agg_inode_id = batch[p].agg_inode_id]
           new(s) == [p \in Paths |-> IF p \in parents THEN more(base(s, p), p)
                                      ELSE IF p \in S THEN file(s, p) ELSE s.inodes[p]]
           P == S \cup parents
           v == internal_put_ok_batch(d, batch)
           u == internal_put_ok_batch(w, batch)
<1>1. v = [d EXCEPT !.inodes = new(d)] /\ u = [w EXCEPT !.inodes = new(w)]
  BY DOMAIN batch = S DEF internal_put_ok_batch
<1>2. P \subseteq Paths
  BY NamespaceAssumption
<1>3. /\ v.inodes = new(d) /\ v.aggs = d.aggs
      /\ u.inodes = new(w) /\ u.aggs = w.aggs
  BY <1>1 DEF Store
<1>4. Updates(v, d, P) /\ Updates(u, w, P)
  BY PutOkBatchWrites
<1>5. ASSUME NEW q \in parents
      PROVE  SetOrKept(get_inode(d, q), v.inodes[q], get_inode(w, q), u.inodes[q])
  <2> DEFINE i == get_inode(d, q)
             k == get_inode(w, q)
  <2>1. PICK p \in S : q = Parent[p]
    BY <1>5
  <2>2. q \in Paths /\ ~ParentMissing(d, p) /\ ~ParentMissing(w, p)
    BY <1>2, <2>1
  <2>3. base(d, q) = i /\ base(w, q) = k
    BY <2>1, <2>2 DEF ParentMissing, get_inode
  <2>4. i \in CleanInode /\ k \in CleanInode
    BY <2>2, Reads
  <2>5. v.inodes[q] = more(base(d, q), q) /\ u.inodes[q] = more(base(w, q), q)
    BY <1>3, <2>2
  <2>6. v.inodes[q] = more(i, q) /\ u.inodes[q] = more(k, q)
    BY <2>3, <2>5
  <2> HIDE DEF v, u, i, k, added
  <2>7. i.sub \in [Items -> 0..1] /\ k.sub \in [Items -> 0..1]
    BY <2>4 DEF CleanInode
  <2>8. /\ v.inodes[q].sub = [y \in Items |-> IF y \in added(q) /\ i.sub[y] = 0 THEN 1 ELSE i.sub[y]]
        /\ u.inodes[q].sub = [y \in Items |-> IF y \in added(q) /\ k.sub[y] = 0 THEN 1 ELSE k.sub[y]]
        /\ SameFields(i, v.inodes[q]) /\ SameFields(k, u.inodes[q])
    BY <2>4, <2>6 DEF CleanInode, SameFields
  <2>9. \A y \in Items : \/ v.inodes[q].sub[y] = u.inodes[q].sub[y]
                         \/ v.inodes[q].sub[y] = i.sub[y] /\ u.inodes[q].sub[y] = k.sub[y]
    BY <2>7, <2>8
  <2>10. SetOrKept(i, v.inodes[q], k, u.inodes[q])
    BY <2>8, <2>9, SubSetOrKept
  <2> QED
    BY <2>10 DEF i, k
<1>6. ASSUME NEW p \in S, p \notin parents
      PROVE  SetOrKept(get_inode(d, p), v.inodes[p], get_inode(w, p), u.inodes[p])
  <2>1. v.inodes[p] = file(d, p) /\ u.inodes[p] = file(w, p)
    BY <1>2, <1>3, <1>6
  <2>2. p \in Paths /\ batch[p] \in CleanInode
    BY <1>2
  <2> DEFINE id == batch[p].agg_inode_id
  <2>3. /\ SetOrKept(get_inode(d, p), rec(d, p), get_inode(w, p), rec(w, p))
        /\ SetOrKept(get_inode(d, p), [rec(d, p) EXCEPT !.agg_inode_id = id],
                     get_inode(w, p), [rec(w, p) EXCEPT !.agg_inode_id = id])
    BY <2>2, PutOkSetsOrKeeps
  <2> HIDE DEF v, u, rec
  <2> QED
    BY <2>1, <2>3
<1> HIDE DEF v, u, parents
<1>7. \A q \in P : SetOrKept(get_inode(d, q), v.inodes[q], get_inode(w, q), u.inodes[q])
  BY <1>5, <1>6
<1> HIDE DEF P
<1>8. Agree(v, u, x) \/ (Agree(v, d, x) /\ Agree(u, w, x))
  BY <1>3, <1>4, <1>7, StoresSetOrKept
<1> QED
  BY <1>8 DEF v, u

\* An entry that is applied sets a cell or keeps it, whatever the store.
LEMMA SetsOrKeeps ==
  ASSUME NEW d \in Store, NEW w \in Store, NEW e \in Entry,
         ~Trips(d, e), ~Trips(w, e), NEW x \in Cells
  PROVE  \/ Agree(Writes(d, e), Writes(w, e), x)
         \/ Agree(Writes(d, e), d, x) /\ Agree(Writes(w, e), w, x)
<1> DEFINE v == Writes(d, e)
           u == Writes(w, e)
           p == PathOf(e)
           Goal == Agree(v, u, x) \/ (Agree(v, d, x) /\ Agree(u, w, x))
<1> SUFFICES Goal
  OBVIOUS
<1>1. CASE e.op = "OP_PUTAGG"
  <2>1. v = internal_put_agg(d, e.id, e.files) /\ u = internal_put_agg(w, e.id, e.files)
    BY <1>1 DEF Writes
  <2>2. e.id \in AggIds
    BY <1>1, EntryShape DEF OpTypes
  <2>3. /\ v.inodes = d.inodes /\ u.inodes = w.inodes
        /\ v.aggs = [d.aggs EXCEPT ![e.id] = [files |-> e.files, valid |-> e.files]]
        /\ u.aggs = [w.aggs EXCEPT ![e.id] = [files |-> e.files, valid |-> e.files]]
    BY <2>1 DEF internal_put_agg, Store
  <2>4. /\ d.aggs \in [AggIds -> AggInode \cup {NotFound}]
        /\ w.aggs \in [AggIds -> AggInode \cup {NotFound}]
    BY DEF Store
  <2> HIDE DEF v, u
  <2>5. /\ Rec(v) = Rec(d) /\ Rec(u) = Rec(w)
        /\ \A q : get_inode(v, q) = get_inode(d, q) /\ get_inode(u, q) = get_inode(w, q)
    BY <2>3 DEF Rec, get_inode
  <2>6. CASE x.kind = "aggs" /\ x.id = e.id
    BY <2>2, <2>3, <2>4, <2>6 DEF Agree, Fields
  <2>7. CASE ~(x.kind = "aggs" /\ x.id = e.id)
    <3>1. Agree(v, d, x)
      BY <2>3, <2>4, <2>5, <2>7 DEF Agree, InodesAgree
    <3>2. Agree(u, w, x)
      BY <2>3, <2>4, <2>5, <2>7 DEF Agree, InodesAgree
    <3> QED
      BY <3>1, <3>2
  <2> QED
    BY <2>6, <2>7
<1>2. CASE e.op \in OpTypes
  <2>1. /\ DOMAIN e.inodes \in SUBSET Paths
        /\ e.inodes \in [DOMAIN e.inodes -> CleanInode]
        /\ p \in DOMAIN e.inodes
    BY <1>2, EntryShape DEF OpTypes
  <2>2. p \in Paths /\ Parent[p] \in Paths /\ e.inodes[p] \in CleanInode
    BY <2>1, NamespaceAssumption
  <2>3. /\ get_inode(d, Parent[p]) \in CleanInode /\ get_inode(w, Parent[p]) \in CleanInode
    BY <2>2, Reads
  <2>4. filename(p, e.inodes[p]) \in Items
    BY <2>2 DEF filename, Dentry, Items, CleanInode
  <2>5. ASSUME e.op \in {"OP_MKDIR", "OP_PUTOK", "OP_RM"}
        PROVE  /\ get_parent_inode(d, p) = get_inode(d, Parent[p])
               /\ get_parent_inode(w, p) = get_inode(w, Parent[p])
    <3>1. ~ParentMissing(d, p) /\ ~ParentMissing(w, p)
      BY <2>1, <2>5 DEF Trips
    <3> QED
      BY <2>2, <3>1, ParentRead
  <2> DEFINE y == filename(p, e.inodes[p])
             da == AddDentry(get_inode(d, Parent[p]), y)
             wa == AddDentry(get_inode(w, Parent[p]), y)
             de == EraseDentry(get_inode(d, Parent[p]), p)
             we == EraseDentry(get_inode(w, Parent[p]), p)
             i == e.inodes[p]
  <2>6. /\ da \in CleanInode /\ wa \in CleanInode
        /\ SetOrKept(get_inode(d, Parent[p]), da, get_inode(w, Parent[p]), wa)
    BY <2>3, <2>4, AddDentryClean, AddSetsOrKeeps
  <2>7. /\ de \in CleanInode /\ we \in CleanInode
        /\ SetOrKept(get_inode(d, Parent[p]), de, get_inode(w, Parent[p]), we)
    <3>1. \A j : ListsOnly(j, Paths)
      BY DEF ListsOnly
    <3> QED
      BY <2>2, <2>3, <3>1, EraseDentryClean, EraseSetsOrKeeps
  <2>8. SetOrKept(get_inode(d, p), i, get_inode(w, p), i)
    BY SetAll
  <2> HIDE DEF p
  <2>9. CASE e.op = "OP_MKDIR"
    <3>1. v = Put2(d, p, da, i) /\ u = Put2(w, p, wa, i)
      BY <2>5, <2>9 DEF Writes, PathOf, p, internal_mkdir, Put2
    <3> HIDE DEF v, u, da, wa, i
    <3> QED
      BY <2>2, <2>6, <2>8, <3>1, PutTwoSetsOrKeeps DEF i
  <2>10. CASE e.op = "OP_RM"
    <3>1. v = Put2(d, p, de, i) /\ u = Put2(w, p, we, i)
      BY <2>5, <2>10 DEF Writes, PathOf, p, internal_rm, agg_rm, Put2
    <3> HIDE DEF v, u, de, we, i
    <3> QED
      BY <2>2, <2>7, <2>8, <3>1, PutTwoSetsOrKeeps DEF i
  <2>11. CASE e.op = "OP_PUTOK"
    <3> DEFINE do == PutOkRecord(d, p, i)
               wo == PutOkRecord(w, p, i)
    <3>1. v = Put2(d, p, da, do) /\ u = Put2(w, p, wa, wo)
      BY <2>5, <2>11 DEF Writes, PathOf, p, internal_put_ok, Put2
    <3>2. /\ do \in CleanInode /\ wo \in CleanInode
          /\ SetOrKept(get_inode(d, p), do, get_inode(w, p), wo)
      BY <2>2, PutOkRecordClean, PutOkSetsOrKeeps
    <3> HIDE DEF v, u, da, wa, i, do, wo
    <3> QED
      BY <2>2, <2>6, <3>1, <3>2, PutTwoSetsOrKeeps
  <2>12. CASE e.op = "OP_PUT"
    <3>1. v = internal_put(d, p, i) /\ u = internal_put(w, p, i)
      BY <2>12 DEF Writes, PathOf, p
    <3>2. Updates(v, d, {p}) /\ Updates(u, w, {p})
      BY <2>2, <3>1, PutWrites
    <3>3. /\ v.inodes[p] = i /\ u.inodes[p] = i
          /\ v.aggs = d.aggs /\ u.aggs = w.aggs
      BY <2>2, <3>1 DEF internal_put, Store
    <3> HIDE DEF v, u, i
    <3> QED
      BY <2>8, <3>2, <3>3, StoresSetOrKept
  <2>13. CASE e.op = "OP_PUTBATCH"
    <3>1. v = internal_put_batch(d, e.inodes) /\ u = internal_put_batch(w, e.inodes)
      BY <2>13 DEF Writes
    <3>2. Updates(v, d, DOMAIN e.inodes) /\ Updates(u, w, DOMAIN e.inodes)
      BY <2>1, <3>1, PutBatchWrites
    <3>3. /\ \A q \in DOMAIN e.inodes : v.inodes[q] = e.inodes[q] /\ u.inodes[q] = e.inodes[q]
          /\ v.aggs = d.aggs /\ u.aggs = w.aggs
      BY <2>1, <3>1 DEF internal_put_batch, Store
    <3> HIDE DEF v, u
    <3>4. \A q \in DOMAIN e.inodes :
            SetOrKept(get_inode(d, q), v.inodes[q], get_inode(w, q), u.inodes[q])
      BY <3>3, SetAll
    <3> QED
      BY <3>2, <3>3, <3>4, StoresSetOrKept
  <2>14. CASE e.op = "OP_PUTOKBATCH"
    <3>1. v = internal_put_ok_batch(d, e.inodes) /\ u = internal_put_ok_batch(w, e.inodes)
      BY <2>14 DEF Writes
    <3>2. \A q \in DOMAIN e.inodes : ~ParentMissing(d, q) /\ ~ParentMissing(w, q)
      BY <2>14 DEF Trips
    <3> HIDE DEF v, u
    <3> QED
      BY <2>1, <3>1, <3>2, BatchSetsOrKeeps
  <2> QED
    BY <1>2, <2>9, <2>10, <2>11, <2>12, <2>13, <2>14 DEF OpTypes
<1> QED
  BY <1>1, <1>2, EntryShape

-----------------------------------------------------------------------------
(* Replicas                                                                *)

\* The history is the log applied once, in order, to an empty store.
HistoryIsLog ==
  /\ hist[1] = EmptyDatabase
  /\ \A i \in 1..Len(log) : hist[i + 1] = Writes(hist[i], log[i])

\* None of the first j entries of log l, with history h, trips the assertion.
HealthyTo(l, h, j) == \A i \in 1..j : ~Trips(h[i], l[i])

\* Each cell of a store d, whose node has applied a entries since it started,
\* is that of a healthy store of the history h which is at least as new.
NewEnough(d, a, l, h) ==
  \A x \in Cells : \E j \in a..Len(l) : HealthyTo(l, h, j) /\ Agree(d, h[j + 1], x)

\* The inductive invariant, on top of IInv.
ReplicaInv == HistoryIsLog /\ \A n \in Nodes : NewEnough(db[n], applied[n], log, hist)

\* The stores of the history are stores.
LEMMA HistTypes ==
  ASSUME TypeInv
  PROVE  /\ Len(log) \in Nat /\ Len(hist) = Len(log) + 1
         /\ \A j \in 0..Len(log) : hist[j + 1] \in Store
         /\ \A i \in 1..Len(log) : hist[i] \in Store /\ log[i] \in Entry
         /\ \A n \in Nodes : applied[n] \in 0..Len(log) /\ db[n] \in Store
  BY DEF TypeInv

\* Applying the next entry keeps a store new enough.
LEMMA ApplyNewEnough ==
  ASSUME TypeInv, HistoryIsLog, NEW d \in Store, NEW a \in 0..(Len(log) - 1),
         NewEnough(d, a, log, hist), ~Trips(d, log[a + 1])
  PROVE  NewEnough(Writes(d, log[a + 1]), a + 1, log, hist)
<1> DEFINE e == log[a + 1]
           w == hist[a + 1]
           next == hist[a + 2]
<1>1. /\ Len(log) \in Nat /\ a + 1 \in 1..Len(log) /\ a + 1 \in 0..Len(log)
      /\ e \in Entry /\ w \in Store /\ next \in Store
  BY HistTypes
<1>2. next = Writes(w, e)
  BY <1>1 DEF HistoryIsLog
<1>3. HealthyTo(log, hist, a)
  <2>1. PICK x \in Cells : TRUE
    <3>1. <<Root, TRUE>> \in Items
      BY NamespaceAssumption DEF Items
    <3>2. [kind |-> "aggs", path |-> Root, item |-> <<Root, TRUE>>, id |-> NoAgg] \in Cells
      BY <3>1, NamespaceAssumption DEF Cells
    <3> QED
      BY <3>2
  <2>2. PICK j \in a..Len(log) : HealthyTo(log, hist, j)
    BY <2>1 DEF NewEnough
  <2> QED
    BY <1>1, <2>2 DEF HealthyTo
<1>4. ~Trips(w, e)
  <2> SUFFICES ASSUME Trips(w, e) PROVE FALSE
    OBVIOUS
  <2>1. /\ e.op \in {"OP_MKDIR", "OP_PUTOK", "OP_PUTOKBATCH", "OP_RM"}
        /\ \E p \in DOMAIN e.inodes : ParentMissing(w, p)
    BY DEF Trips
  <2>2. PICK p \in DOMAIN e.inodes : ParentMissing(w, p)
    BY <2>1
  <2>3. DOMAIN e.inodes \subseteq Paths
    BY <1>1, <2>1, EntryShape
  <2>4. Parent[p] \in Paths
    BY <2>2, <2>3, NamespaceAssumption
  <2>5. Parent[p] \in Rec(d) /\ Parent[p] \notin Rec(w)
    BY <2>1, <2>2, <2>4 DEF Trips, ParentMissing, Rec
  <2> DEFINE x == [kind |-> "record", path |-> Parent[p], item |-> <<Root, TRUE>>, id |-> NoAgg]
  <2>6. x \in Cells
    BY <2>4, NamespaceAssumption DEF Cells, Items
  <2>7. PICK j \in a..Len(log) : HealthyTo(log, hist, j) /\ Agree(d, hist[j + 1], x)
    BY <2>6 DEF NewEnough
  <2>8. Parent[p] \in Rec(hist[j + 1])
    BY <2>5, <2>7 DEF Agree
  <2>9. j # a
    BY <2>5, <2>8
  <2>10. a + 1 \in 1..j
    BY <1>1, <2>7, <2>9
  <2> QED
    BY <2>7, <2>10 DEF HealthyTo
<1>5. HealthyTo(log, hist, a + 1)
  BY <1>1, <1>3, <1>4 DEF HealthyTo
<1> SUFFICES ASSUME NEW x \in Cells
             PROVE  \E j \in (a + 1)..Len(log) : HealthyTo(log, hist, j) /\ Agree(Writes(d, e), hist[j + 1], x)
  BY DEF NewEnough
<1>6. PICK j \in a..Len(log) : HealthyTo(log, hist, j) /\ Agree(d, hist[j + 1], x)
  BY DEF NewEnough
<1> DEFINE v == Writes(d, e)
<1> HIDE DEF e, w, next, v
<1>7. \/ Agree(v, next, x)
      \/ Agree(v, d, x) /\ Agree(next, w, x)
  <2>1. ~Trips(d, e)
    BY DEF e
  <2> QED
    BY <1>1, <1>2, <1>4, <2>1, SetsOrKeeps DEF v
<1>8. next = hist[(a + 1) + 1] /\ w = hist[a + 1]
  BY <1>1 DEF next, w
<1>9. CASE Agree(v, next, x)
  BY <1>1, <1>5, <1>8, <1>9 DEF v
<1>10. CASE Agree(v, d, x) /\ Agree(next, w, x)
  <2>1. CASE j = a
    <3>1. Agree(d, w, x) /\ Agree(w, next, x)
      BY <1>6, <1>8, <1>10, <2>1, AgreeEquivalence
    <3>2. Agree(v, next, x)
      BY <1>10, <3>1, AgreeEquivalence
    <3> QED
      BY <1>9, <3>2
  <2>2. CASE j # a
    <3>1. j \in (a + 1)..Len(log)
      BY <1>1, <1>6, <2>2
    <3>2. Agree(v, hist[j + 1], x)
      BY <1>6, <1>10, AgreeEquivalence
    <3> QED
      BY <1>6, <3>1, <3>2 DEF v
  <2> QED
    BY <2>1, <2>2
<1> QED
  BY <1>7, <1>9, <1>10 DEF v

\* At first the log is empty and every store is that of the empty history.
LEMMA ReplicaInit == Init => ReplicaInv
<1> SUFFICES ASSUME Init PROVE ReplicaInv
  OBVIOUS
<1>1. /\ Len(log) = 0 /\ hist[1] = EmptyDatabase
      /\ \A n \in Nodes : db[n] = EmptyDatabase /\ applied[n] = 0
  BY DEF Init
<1>2. HistoryIsLog /\ HealthyTo(log, hist, 0)
  BY <1>1 DEF HistoryIsLog, HealthyTo
<1>3. \A n \in Nodes : NewEnough(db[n], applied[n], log, hist)
  BY <1>1, <1>2, AgreeEquivalence DEF NewEnough
<1> QED
  BY <1>2, <1>3 DEF ReplicaInv

\* A store remains new enough when its node starts again from fewer entries.
LEMMA OlderNewEnough ==
  ASSUME NEW l, NEW h, NEW d, NEW a \in Nat, NewEnough(d, a, l, h), NEW b \in 0..a
  PROVE  NewEnough(d, b, l, h)
<1> SUFFICES ASSUME NEW x \in Cells
             PROVE  \E j \in b..Len(l) : HealthyTo(l, h, j) /\ Agree(d, h[j + 1], x)
  BY DEF NewEnough
<1>1. PICK j \in a..Len(l) : HealthyTo(l, h, j) /\ Agree(d, h[j + 1], x)
  BY DEF NewEnough
<1>2. j \in b..Len(l)
  OBVIOUS
<1> QED
  BY <1>1, <1>2

\* It remains new enough when the log grows.
LEMMA GrowthNewEnough ==
  ASSUME TypeInv, NEW e \in Entry, NEW s \in Store, NEW d, NEW a \in Nat, NewEnough(d, a, log, hist)
  PROVE  NewEnough(d, a, Append(log, e), Append(hist, s))
<1> DEFINE l == Append(log, e)
           h == Append(hist, s)
<1>1. /\ log \in Seq(Entry) /\ hist \in Seq(Store) /\ Len(hist) = Len(log) + 1
      /\ Len(log) \in Nat
  BY DEF TypeInv
<1>2. /\ Len(l) = Len(log) + 1
      /\ \A i \in 1..Len(log) : l[i] = log[i] /\ h[i] = hist[i]
      /\ \A j \in 0..Len(log) : h[j + 1] = hist[j + 1]
  BY <1>1
<1> HIDE DEF l, h
<1> SUFFICES ASSUME NEW x \in Cells
             PROVE  \E j \in a..Len(l) : HealthyTo(l, h, j) /\ Agree(d, h[j + 1], x)
  BY DEF NewEnough, l, h
<1>3. PICK j \in a..Len(log) : HealthyTo(log, hist, j) /\ Agree(d, hist[j + 1], x)
  BY DEF NewEnough
<1>4. j \in a..Len(l) /\ j \in 0..Len(log)
  BY <1>1, <1>2, <1>3
<1>5. HealthyTo(l, h, j)
  BY <1>1, <1>2, <1>3, <1>4 DEF HealthyTo
<1> QED
  BY <1>2, <1>3, <1>4, <1>5

\* Every step keeps the replicas' stores new enough.
LEMMA ReplicaNext == IInv /\ ReplicaInv /\ [Next]_vars => ReplicaInv'
<1> SUFFICES ASSUME IInv, ReplicaInv, [Next]_vars PROVE ReplicaInv'
  OBVIOUS
<1>1. /\ TypeInv /\ HistoryIsLog
      /\ \A n \in Nodes : NewEnough(db[n], applied[n], log, hist)
      /\ \A n \in Nodes : applied[n] \in Nat /\ db[n] \in Store
      /\ db \in [Nodes -> Store] /\ applied \in [Nodes -> Nat]
  BY DEF IInv, ReplicaInv, TypeInv
<1>2. ASSUME UNCHANGED <<log, hist>>,
             \A n \in Nodes : db'[n] = db[n] /\ applied'[n] \in 0..applied[n]
      PROVE  ReplicaInv'
  <2>1. HistoryIsLog'
    BY <1>1, <1>2 DEF HistoryIsLog
  <2>2. \A n \in Nodes : NewEnough(db[n], applied'[n], log, hist)
    BY <1>1, <1>2, OlderNewEnough
  <2> QED
    BY <1>2, <2>1, <2>2 DEF ReplicaInv
<1>3. ASSUME UNCHANGED <<log, hist, db, applied>> PROVE ReplicaInv'
  BY <1>1, <1>2, <1>3
<1>4. ASSUME NEW h \in Handlers, Propose(h) PROVE ReplicaInv'
  <2> DEFINE e == Head(rpc[h].entries)
             s == Writes(hist[Len(hist)], e)
  <2>1. /\ log' = Append(log, e) /\ hist' = Append(hist, s)
        /\ UNCHANGED <<db, applied>>
    BY <1>4 DEF Propose
  <2>2. e \in Entry
    <3>1. rpc[h] \in Active /\ rpc[h].entries # << >>
      BY <1>1, <1>4 DEF TypeInv, Propose
    <3>2. rpc[h].entries \in Seq(Entry)
      BY <3>1 DEF Active
    <3> QED
      BY <3>1, <3>2
  <2>3. /\ log \in Seq(Entry) /\ hist \in Seq(Store) /\ Len(hist) = Len(log) + 1 /\ Len(log) \in Nat
        /\ hist[Len(hist)] \in Store
    BY <1>1, HistTypes DEF TypeInv
  <2>4. s \in Store
    BY <2>2, <2>3, ApplyEntry
  <2> HIDE DEF e
  <2>5. HistoryIsLog'
    <3>1. hist'[1] = EmptyDatabase
      BY <1>1, <2>1, <2>3, <2>4 DEF HistoryIsLog
    <3>2. \A i \in 1..Len(log) : hist'[i + 1] = Writes(hist'[i], log'[i])
      <4> TAKE i \in 1..Len(log)
      <4>1. hist'[i + 1] = hist[i + 1] /\ hist'[i] = hist[i] /\ log'[i] = log[i]
        <5> HIDE DEF s
        <5> QED
          BY <2>1, <2>2, <2>3, <2>4
      <4> QED
        BY <1>1, <4>1 DEF HistoryIsLog
    <3>3. hist'[Len(log) + 2] = s /\ hist'[Len(log) + 1] = hist[Len(hist)] /\ log'[Len(log) + 1] = e
      <4> HIDE DEF s
      <4> QED
        BY <2>1, <2>2, <2>3, <2>4
    <3>4. Len(log') = Len(log) + 1
      BY <2>1, <2>2, <2>3
    <3>5. hist'[(Len(log) + 1) + 1] = Writes(hist'[Len(log) + 1], log'[Len(log) + 1])
      BY <2>3, <3>3
    <3>6. \A i \in 1..Len(log') : i \in 1..Len(log) \/ i = Len(log) + 1
      BY <2>3, <3>4
    <3> QED
      BY <3>1, <3>2, <3>5, <3>6 DEF HistoryIsLog
  <2>6. \A n \in Nodes : NewEnough(db[n], applied[n], Append(log, e), Append(hist, s))
    BY <1>1, <2>2, <2>4, GrowthNewEnough
  <2> QED
    BY <2>1, <2>5, <2>6 DEF ReplicaInv
<1>5. ASSUME NEW n \in Nodes, OnApply(n) PROVE ReplicaInv'
  <2> DEFINE e == log[applied[n] + 1]
  <2>1. /\ applied[n] < Len(log) /\ ~Trips(db[n], e)
        /\ db' = [db EXCEPT ![n] = Writes(db[n], e)]
        /\ applied' = [applied EXCEPT ![n] = applied[n] + 1]
        /\ UNCHANGED <<log, hist>>
    BY <1>5 DEF OnApply
  <2>2. applied[n] \in 0..(Len(log) - 1)
    BY <1>1, <2>1, HistTypes
  <2>3. NewEnough(Writes(db[n], e), applied[n] + 1, log, hist)
    BY <1>1, <2>1, <2>2, ApplyNewEnough
  <2> HIDE DEF e
  <2>4. \A m \in Nodes : NewEnough(db'[m], applied'[m], log, hist)
    BY <1>1, <2>1, <2>3
  <2> QED
    BY <1>1, <2>1, <2>4 DEF ReplicaInv, HistoryIsLog
<1>6. ASSUME NEW n \in Nodes, Restart(n) PROVE ReplicaInv'
  BY <1>1, <1>2, <1>6 DEF Restart
<1>7. ASSUME NEW h \in Handlers,
             \/ \E n \in Nodes, r \in Requests : Call(h, n, r)
             \/ \E p \in Paths : Prepare(h, p) \/ PrepareThrows(h, p)
             \/ ProposeFails(h) \/ Respond(h)
      PROVE  ReplicaInv'
  BY <1>3, <1>7 DEF Call, Prepare, PrepareThrows, ProposeFails, Respond
<1>8. ASSUME NEW n \in Nodes, Abort(n) \/ Crash(n) \/ Elect(n) PROVE ReplicaInv'
  BY <1>3, <1>8 DEF Abort, Crash, Gone, Elect
<1>9. CASE StepDown \/ Tick \/ UNCHANGED vars
  BY <1>3, <1>9 DEF StepDown, Tick, vars
<1> QED
  BY <1>4, <1>5, <1>6, <1>7, <1>8, <1>9 DEF Next, Handle

\* When there is nothing left to apply, only the newest store is new enough.
LEMMA InvCaughtUp == IInv /\ ReplicaInv => CaughtUpReplicasAgree
<1> SUFFICES ASSUME IInv, ReplicaInv, NEW n \in Nodes, applied[n] = Len(log)
             PROVE  db[n] = hist[Len(log) + 1]
  BY DEF CaughtUpReplicasAgree
<1>1. TypeInv
  BY DEF IInv
<1>2. db[n] \in Store /\ hist[Len(log) + 1] \in Store /\ Len(log) \in Nat
  BY <1>1, HistTypes
<1>3. ASSUME NEW x \in Cells PROVE Agree(db[n], hist[Len(log) + 1], x)
  <2>1. PICK j \in Len(log)..Len(log) : Agree(db[n], hist[j + 1], x)
    BY DEF ReplicaInv, NewEnough
  <2> QED
    BY <1>2, <2>1
<1> QED
  BY <1>2, <1>3, CellsDetermine

\* A namenode that has applied the whole log, possibly over a store that was
\* already newer after a crash, holds the store that the log gives when it is
\* applied once (on_apply of raft_nn.cpp, restarts without the applied index).
THEOREM CaughtUp == Spec => []CaughtUpReplicasAgree
  BY InvCaughtUp, ReplicaInit, ReplicaNext, Invariance, PTL DEF Spec

-----------------------------------------------------------------------------
(* Requests one after the other                                            *)
(*                                                                         *)
(* Without overlapping requests and without faults, what a handler prepared *)
(* still fits the newest store when it is proposed: the leader's store is  *)
(* behind only in what the request itself has proposed.  The exception is  *)
(* an update_lock of several paths, which is answered after the first of   *)
(* its entries: the later ones may still be on their way when the next     *)
(* request reads the store.  They only change deadlines, so the content    *)
(* fits even then; what is said of locks needs one path per update_lock.   *)

\* One request at a time, and neither crashes nor leader changes.
Serial == MaxFaults = 0 /\ \A g, h \in Handlers : g = h

\* Every update_lock is for one path.
OnePathRefresh == \A r \in Requests : r.op = "update_lock" => \A p, q \in r.paths : p = q

\* Two stores differ at most in deadlines, and not even there when every
\* refresh is for one path.
SameContent(d, w) == \A p \in Paths : unlock(get_inode(d, p)) = unlock(get_inode(w, p))

Alike(d, w) == SameContent(d, w) /\ (OnePathRefresh => d.inodes = w.inodes)

\* After k entries, the stores of history h are like the newest.
Settled(k, h) == \A i \in (k + 1)..Len(h) : Alike(h[i], h[Len(h)])

\* The inode i that request op prepared for path p fits store d, at time t.
Fits(op, d, p, i, t) ==
  LET old == get_inode(d, p)
  IN  /\ op = "mkdir" => p # Root /\ ~old.valid /\ i = get_default_dir
      /\ op = "rm" => i = NewInode(FALSE)
      /\ op \in {"put", "put_batch", "update_lock"} =>
           i.valid /\ i.sub = old.sub /\ i.is_directory = (old.valid /\ old.is_directory)
      /\ op = "update_lock" => unlock(i) = unlock(old)
      /\ op \in {"put_ok", "put_ok_batch"} =>
           old.valid /\ ~old.is_directory /\ ~i.is_directory
      /\ op \in {"put", "put_batch"} /\ OnePathRefresh => old.ddl_lock < t

\* The type of the first entry a request proposes.
FirstOp == [mkdir |-> "OP_MKDIR", rm |-> "OP_RM", put |-> "OP_PUT", update_lock |-> "OP_PUT",
            put_batch |-> "OP_PUTBATCH", put_ok |-> "OP_PUTOK", put_ok_batch |-> "OP_PUTOKBATCH"]

EntryFits(e, op, d, t) ==
  e.op = FirstOp[op] /\ \A p \in DOMAIN e.inodes : Fits(op, d, p, e.inodes[p], t)

AggOnly(s) == Len(s) = 1 /\ s[1].op = "OP_PUTAGG"

\* A refresh of several paths.
Refreshing(c) == c.op = "update_lock" /\ ~OnePathRefresh

\* Handler c of node m waits for its entry, which m may not have applied.
Pending(c, m) == c # Idle /\ c.node = m /\ c.wait > 0 /\ ~Refreshing(c)

\* What handler c holds fits the newest store d at time t.
RequestFits(c, d, t) ==
  /\ \A p \in DOMAIN c.inodes : Fits(c.op, d, p, c.inodes[p], t)
  /\ c.entries # << >> \/ c.wait > 0 \/ c.op = "update_lock" => DOMAIN c.inodes = {}
  /\ c.entries # << >> \/ c.wait > 0 => c.todo = {} \/ Refreshing(c)
  /\ c.op = "update_lock" /\ OnePathRefresh => \A p, q \in c.todo : p = q
  /\ \/ c.entries = << >>
     \/ AggOnly(c.entries)
     \/ /\ c.wait > 0 => Refreshing(c)
        /\ EntryFits(c.entries[1], c.op, d, t)
        /\ Tail(c.entries) = << >> \/ AggOnly(Tail(c.entries))

\* Path q is a directory of store d; path p exists in it and is of kind k.
IsDir(d, q) == q \in Rec(d) /\ d.inodes[q].valid /\ d.inodes[q].is_directory
IsOfKind(d, p, k) == p \in Rec(d) /\ d.inodes[p].valid /\ d.inodes[p].is_directory = k

\* A directory lists its children only, and as what they are.
TreeOK(d) ==
  \A q, p \in Paths, k \in BOOLEAN :
    IsDir(d, q) /\ d.inodes[q].sub[Dentry(p, k)] > 0 => Parent[p] = q /\ IsOfKind(d, p, k)

\* Store w has the subs of store d.
SameSubs(d, w) == \A p \in Paths : get_inode(w, p).sub = get_inode(d, p).sub

\* Every namenode runs, and holds the store of the entries it has applied.
ExactInv == \A n \in Nodes : up[n] /\ db[n] = hist[applied[n] + 1]

\* The leader is behind only in what a handler waits for.
LeaderInv ==
  /\ leader = NoLeader => Len(log) = 0
  /\ leader # NoLeader =>
       /\ \A h \in Handlers : Pending(rpc[h], leader) => Settled(rpc[h].wait, hist)
       /\ (\A h \in Handlers : ~Pending(rpc[h], leader)) => Settled(applied[leader], hist)

\* What a handler of the leader holds fits the newest store.
FitInv ==
  \A h \in Handlers : rpc[h] # Idle /\ (rpc[h].node = leader \/ leader = NoLeader)
                        => RequestFits(rpc[h], hist[Len(hist)], clock)

\* The stores of the history are trees, and putting keeps the subs.
ContentInv ==
  /\ \A i \in 1..Len(hist) : TreeOK(hist[i])
  /\ \A i \in 1..Len(log) : log[i].op \in {"OP_PUT", "OP_PUTBATCH"} => SameSubs(hist[i], hist[i + 1])

\* The inductive invariant of requests one after the other, on top of IInv
\* and ReplicaInv.
InOrder == ExactInv /\ LeaderInv /\ FitInv /\ ContentInv

SerialInv == Healthy => InOrder

-----------------------------------------------------------------------------
(* What an entry that fits does to the tree                                *)

\* What q is taken for when an entry is added to it.
BaseOf(d, q) == IF d.inodes[q] # NotFound THEN d.inodes[q] ELSE get_default_dir

\* In store w path q is what it was taken for in d, and lists in addition at
\* most children in S, as being of kind k.
OnlyAdds(d, w, S, k, q) ==
  /\ q \in Rec(w)
  /\ w.inodes[q].valid = BaseOf(d, q).valid
  /\ w.inodes[q].is_directory = BaseOf(d, q).is_directory
  /\ \A r \in Paths, j \in BOOLEAN : w.inodes[q].sub[Dentry(r, j)] > 0 =>
       BaseOf(d, q).sub[Dentry(r, j)] > 0 \/ (r \in S /\ Parent[r] = q /\ j = k)

\* The default directory and a new inode list nothing.
LEMMA ConstantsList ==
  ASSUME NEW r \in Paths, NEW j \in BOOLEAN
  PROVE  /\ Dentry(r, j) \in Items
         /\ get_default_dir.sub[Dentry(r, j)] = 0 /\ get_default_dir.valid /\ get_default_dir.is_directory
         /\ \A v \in BOOLEAN : NewInode(v).sub[Dentry(r, j)] = 0 /\ NewInode(v).valid = v
                               /\ ~NewInode(v).is_directory
<1>1. Dentry(r, j) \in Items
  BY DEF Dentry, Items
<1> QED
  BY <1>1 DEF get_default_dir, NewInode, NoSub

\* A store that keeps the kind of what there is, and whose directories list
\* what they listed and children of the right kind, is a tree if it was one.
LEMMA TreeKept ==
  ASSUME NEW d, NEW w, TreeOK(d),
         \A r \in Paths, k \in BOOLEAN : IsOfKind(d, r, k) => IsOfKind(w, r, k),
         \A q, r \in Paths, k \in BOOLEAN :
            IsDir(w, q) /\ w.inodes[q].sub[Dentry(r, k)] > 0 =>
              \/ Parent[r] = q /\ IsOfKind(w, r, k)
              \/ IsDir(d, q) /\ d.inodes[q].sub[Dentry(r, k)] > 0
  PROVE  TreeOK(w)
<1> SUFFICES ASSUME NEW q \in Paths, NEW r \in Paths, NEW k \in BOOLEAN,
                    IsDir(w, q), w.inodes[q].sub[Dentry(r, k)] > 0
             PROVE  Parent[r] = q /\ IsOfKind(w, r, k)
  BY DEF TreeOK
<1>1. CASE Parent[r] = q /\ IsOfKind(w, r, k)
  BY <1>1
<1>2. CASE IsDir(d, q) /\ d.inodes[q].sub[Dentry(r, k)] > 0
  BY <1>2 DEF TreeOK
<1> QED
  BY <1>1, <1>2

\* Making paths S of kind k, none of which is of another kind, and listing
\* them in their parents.
LEMMA TreeAdds ==
  ASSUME NEW d \in Store, NEW w \in Store, TreeOK(d),
         NEW S \in SUBSET Paths, NEW k \in BOOLEAN,
         \A p \in S : /\ IsOfKind(w, p, k)
                      /\ \A j \in BOOLEAN : IsOfKind(d, p, j) => j = k
                      /\ k => \A r \in Paths, j \in BOOLEAN : w.inodes[p].sub[Dentry(r, j)] = 0,
         \A q \in Paths \ S : w.inodes[q] = d.inodes[q] \/ OnlyAdds(d, w, S, k, q)
  PROVE  TreeOK(w)
<1>1. ASSUME NEW r \in Paths, NEW j \in BOOLEAN, IsOfKind(d, r, j)
      PROVE  IsOfKind(w, r, j)
  <2>1. CASE r \in S
    BY <1>1, <2>1
  <2>2. CASE r \notin S /\ w.inodes[r] = d.inodes[r]
    BY <1>1, <2>2 DEF IsOfKind, Rec
  <2>3. CASE r \notin S /\ OnlyAdds(d, w, S, k, r)
    <3>1. BaseOf(d, r) = d.inodes[r]
      BY <1>1 DEF BaseOf, IsOfKind, Rec
    <3> QED
      BY <1>1, <2>3, <3>1 DEF IsOfKind, OnlyAdds
  <2> QED
    BY <2>1, <2>2, <2>3
<1>2. ASSUME NEW q \in Paths, NEW r \in Paths, NEW j \in BOOLEAN,
             IsDir(w, q), w.inodes[q].sub[Dentry(r, j)] > 0
      PROVE  \/ Parent[r] = q /\ IsOfKind(w, r, j)
             \/ IsDir(d, q) /\ d.inodes[q].sub[Dentry(r, j)] > 0
  <2>1. CASE q \in S
    <3>1. k = TRUE
      BY <1>2, <2>1 DEF IsOfKind, IsDir
    <3>2. w.inodes[q].sub[Dentry(r, j)] = 0
      BY <2>1, <3>1
    <3> QED
      BY <1>2, <3>2
  <2>2. CASE q \notin S /\ w.inodes[q] = d.inodes[q]
    BY <1>2, <2>2 DEF IsDir, Rec
  <2>3. CASE q \notin S /\ OnlyAdds(d, w, S, k, q)
    <3>1. CASE r \in S /\ Parent[r] = q /\ j = k
      BY <3>1
    <3>2. CASE BaseOf(d, q).sub[Dentry(r, j)] > 0
      <4>1. q \in Rec(d) /\ BaseOf(d, q) = d.inodes[q]
        BY <3>2, ConstantsList DEF BaseOf, Rec
      <4> QED
        BY <1>2, <2>3, <3>2, <4>1 DEF IsDir, OnlyAdds
    <3> QED
      BY <1>2, <2>3, <3>1, <3>2 DEF OnlyAdds
  <2> QED
    BY <2>1, <2>2, <2>3
<1> QED
  BY <1>1, <1>2, TreeKept

\* Putting inodes that differ from the stored ones in what a lock changes.
PutFits(d, p, i) ==
  LET old == get_inode(d, p)
  IN  i.valid /\ i.sub = old.sub /\ i.is_directory = (old.valid /\ old.is_directory)

\* Putting such inodes keeps a tree and every sub.
LEMMA TreePuts ==
  ASSUME NEW d \in Store, NEW w \in Store, TreeOK(d), NEW S \in SUBSET Paths,
         \A p \in S : p \in Rec(w) /\ PutFits(d, p, w.inodes[p]),
         \A q \in Paths \ S : w.inodes[q] = d.inodes[q]
  PROVE  TreeOK(w) /\ SameSubs(d, w)
<1>1. ASSUME NEW r \in Paths, NEW j \in BOOLEAN, IsOfKind(d, r, j)
      PROVE  IsOfKind(w, r, j)
  <2>1. CASE r \in S
    <3>1. get_inode(d, r) = d.inodes[r]
      BY <1>1 DEF IsOfKind, Rec, get_inode
    <3> QED
      BY <1>1, <2>1, <3>1 DEF IsOfKind, PutFits
  <2>2. CASE r \notin S
    BY <1>1, <2>2 DEF IsOfKind, Rec
  <2> QED
    BY <2>1, <2>2
<1>2. ASSUME NEW q \in Paths, NEW r \in Paths, NEW j \in BOOLEAN,
             IsDir(w, q), w.inodes[q].sub[Dentry(r, j)] > 0
      PROVE  IsDir(d, q) /\ d.inodes[q].sub[Dentry(r, j)] > 0
  <2>1. CASE q \in S
    <3> DEFINE old == get_inode(d, q)
    <3>1. old.valid /\ old.is_directory /\ old.sub[Dentry(r, j)] > 0
      BY <1>2, <2>1 DEF IsDir, PutFits
    <3>2. q \in Rec(d)
      <4> SUFFICES ASSUME q \notin Rec(d) PROVE FALSE
        OBVIOUS
      <4>1. old = get_default_dir \/ old = NewInode(FALSE)
        BY DEF Rec, get_inode
      <4>2. get_default_dir.sub[Dentry(r, j)] = 0 /\ ~NewInode(FALSE).valid
        BY ConstantsList
      <4> HIDE DEF old
      <4>3. old # get_default_dir
        BY <3>1, <4>2
      <4> QED
        BY <3>1, <4>1, <4>2, <4>3
    <3>3. old = d.inodes[q]
      BY <3>2 DEF Rec, get_inode
    <3> QED
      BY <3>1, <3>2, <3>3 DEF IsDir
  <2>2. CASE q \notin S
    BY <1>2, <2>2 DEF IsDir, Rec
  <2> QED
    BY <2>1, <2>2
<1>3. TreeOK(w)
  BY <1>1, <1>2, TreeKept
<1>4. ASSUME NEW p \in Paths PROVE get_inode(w, p).sub = get_inode(d, p).sub
  <2>1. CASE p \in S
    BY <2>1 DEF get_inode, Rec, PutFits
  <2>2. CASE p \notin S
    BY <2>2 DEF get_inode
  <2> QED
    BY <2>1, <2>2
<1> QED
  BY <1>3, <1>4 DEF SameSubs

\* Removing a path: it is no directory any more, and its parent forgets it.
LEMMA TreeRemove ==
  ASSUME NEW d \in Store, NEW w \in Store, TreeOK(d), NEW p \in Paths,
         w.inodes[p].valid = FALSE,
         \A q \in Paths \ {p} :
            \/ w.inodes[q] = d.inodes[q] /\ q # Parent[p]
            \/ OnlyAdds(d, w, {}, TRUE, q) /\ \A j \in BOOLEAN : w.inodes[q].sub[Dentry(p, j)] = 0
  PROVE  TreeOK(w)
<1> SUFFICES ASSUME NEW q \in Paths, NEW r \in Paths, NEW j \in BOOLEAN,
                    IsDir(w, q), w.inodes[q].sub[Dentry(r, j)] > 0
             PROVE  Parent[r] = q /\ IsOfKind(w, r, j)
  BY DEF TreeOK
<1>1. q # p
  BY DEF IsDir
<1>2. IsDir(d, q) /\ d.inodes[q].sub[Dentry(r, j)] > 0 /\ r # p
  <2>1. CASE w.inodes[q] = d.inodes[q] /\ q # Parent[p]
    <3>1. IsDir(d, q) /\ d.inodes[q].sub[Dentry(r, j)] > 0
      BY <2>1 DEF IsDir, Rec
    <3>2. Parent[r] = q
      BY <3>1 DEF TreeOK
    <3> QED
      BY <2>1, <3>1, <3>2
  <2>2. CASE /\ OnlyAdds(d, w, {}, TRUE, q)
             /\ \A i \in BOOLEAN : w.inodes[q].sub[Dentry(p, i)] = 0
    <3>1. BaseOf(d, q).sub[Dentry(r, j)] > 0
      BY <2>2 DEF OnlyAdds
    <3>2. q \in Rec(d) /\ BaseOf(d, q) = d.inodes[q]
      BY <3>1, ConstantsList DEF BaseOf, Rec
    <3>3. r # p
      BY <2>2
    <3> QED
      BY <2>2, <3>1, <3>2, <3>3 DEF IsDir, OnlyAdds
  <2> QED
    BY <1>1, <2>1, <2>2
<1>3. Parent[r] = q /\ IsOfKind(d, r, j)
  BY <1>2 DEF TreeOK
<1>4. IsOfKind(w, r, j)
  <2>1. CASE w.inodes[r] = d.inodes[r]
    BY <1>3, <2>1 DEF IsOfKind, Rec
  <2>2. CASE OnlyAdds(d, w, {}, TRUE, r)
    <3>1. BaseOf(d, r) = d.inodes[r]
      BY <1>3 DEF BaseOf, IsOfKind, Rec
    <3> QED
      BY <1>3, <2>2, <3>1 DEF IsOfKind, OnlyAdds
  <2> QED
    BY <1>2, <2>1, <2>2
<1> QED
  BY <1>3, <1>4

\* Directory new is dir, with path p as a child of kind k at most in addition.
AddsOnly(new, dir, p, k) ==
  /\ new \in CleanInode
  /\ new.valid = dir.valid /\ new.is_directory = dir.is_directory
  /\ \A r \in Paths, j \in BOOLEAN : new.sub[Dentry(r, j)] > 0 =>
       dir.sub[Dentry(r, j)] > 0 \/ (r = p /\ j = k)

\* What an added entry changes of a directory.
LEMMA AddDentryOnly ==
  ASSUME NEW dir \in CleanInode, NEW p \in Paths, NEW k \in BOOLEAN
  PROVE  AddsOnly(AddDentry(dir, Dentry(p, k)), dir, p, k)
<1>1. \A r \in Paths, j \in BOOLEAN : /\ Dentry(r, j) \in Items
                                      /\ Dentry(r, j) = Dentry(p, k) <=> r = p /\ j = k
  BY DEF Dentry, Items
<1> QED
  BY <1>1 DEF AddDentry, CleanInode, AddsOnly

\* What an erased entry changes of a directory.
LEMMA EraseDentryOnly ==
  ASSUME NEW dir \in CleanInode, NEW p \in Paths
  PROVE  LET new == EraseDentry(dir, p)
         IN  /\ new.valid = dir.valid /\ new.is_directory = dir.is_directory
             /\ \A j \in BOOLEAN : new.sub[Dentry(p, j)] = 0
             /\ \A r \in Paths, j \in BOOLEAN : new.sub[Dentry(r, j)] > 0 => dir.sub[Dentry(r, j)] > 0
<1> DEFINE names == {Dentry(p, FALSE), Dentry(p, TRUE)}
           sub == [x \in Items |-> IF x \in names THEN 0 ELSE dir.sub[x]]
<1>1. \A r \in Paths, j \in BOOLEAN : Dentry(r, j) \in Items
  BY DEF Dentry, Items
<1>2. \A j \in BOOLEAN : Dentry(p, j) \in names
  OBVIOUS
<1>3. EraseDentry(dir, p) = [dir EXCEPT !.sub = sub]
  BY DEF EraseDentry
<1> HIDE DEF names
<1>4. /\ \A j \in BOOLEAN : sub[Dentry(p, j)] = 0
      /\ \A r \in Paths, j \in BOOLEAN : sub[Dentry(r, j)] > 0 => dir.sub[Dentry(r, j)] > 0
  BY <1>1, <1>2
<1> HIDE DEF sub
<1>5. /\ EraseDentry(dir, p).valid = dir.valid /\ EraseDentry(dir, p).is_directory = dir.is_directory
      /\ EraseDentry(dir, p).sub = sub
  BY <1>3 DEF CleanInode
<1> QED
  BY <1>4, <1>5

\* internal_mkdir keeps a tree when nothing valid is at the path.
LEMMA TreeMkdir ==
  ASSUME NEW d \in Store, TreeOK(d), NEW p \in Paths, p # Root, ~get_inode(d, p).valid
  PROVE  TreeOK(internal_mkdir(d, p, get_default_dir))
<1>0. PICK k \in BOOLEAN : k = TRUE
  OBVIOUS
<1> DEFINE base == get_parent_inode(d, p)
           dir == AddDentry(base, Dentry(p, k))
           w == Put2(d, p, dir, get_default_dir)
<1>1. internal_mkdir(d, p, get_default_dir) = w
  BY <1>0 DEF internal_mkdir, Put2, filename, get_default_dir
<1>2. base \in CleanInode /\ base = BaseOf(d, Parent[p]) /\ Parent[p] # p /\ Parent[p] \in Paths
  BY Reads, NamespaceAssumption DEF get_parent_inode, BaseOf
<1> HIDE DEF base
<1>3. /\ dir \in CleanInode
      /\ dir.valid = base.valid /\ dir.is_directory = base.is_directory
      /\ \A r \in Paths, j \in BOOLEAN : dir.sub[Dentry(r, j)] > 0 =>
           base.sub[Dentry(r, j)] > 0 \/ (r = p /\ j = k)
  <2>1. AddsOnly(dir, base, p, k)
    BY <1>2, AddDentryOnly, Zenon
  <2> HIDE DEF dir
  <2> QED
    BY <2>1 DEF AddsOnly
<1> HIDE DEF dir
<1>4. /\ w \in Store /\ w.inodes[p] = get_default_dir /\ w.inodes[Parent[p]] = dir
      /\ \A q \in Paths \ {p, Parent[p]} : w.inodes[q] = d.inodes[q]
  BY <1>2, <1>3, PutTwo, ConstantInodes DEF Updates
<1> HIDE DEF w
<1>5. Parent[p] \in Rec(w) /\ p \in Rec(w)
  BY <1>2, <1>3, <1>4, NotFoundNoInode, ConstantInodes DEF Rec
<1>6. OnlyAdds(d, w, {p}, k, Parent[p])
  BY <1>2, <1>3, <1>4, <1>5 DEF OnlyAdds
<1>7. IsOfKind(w, p, k)
  BY <1>0, <1>4, <1>5, ConstantsList DEF IsOfKind
<1>8. \A j \in BOOLEAN : ~IsOfKind(d, p, j)
  BY DEF IsOfKind, Rec, get_inode
<1>9. \A r \in Paths, j \in BOOLEAN : w.inodes[p].sub[Dentry(r, j)] = 0
  BY <1>4, ConstantsList
<1>10. \A q \in Paths \ {p} : w.inodes[q] = d.inodes[q] \/ OnlyAdds(d, w, {p}, k, q)
  BY <1>4, <1>6
<1>11. {p} \in SUBSET Paths
  OBVIOUS
<1>12. TreeOK(w)
  BY <1>4, <1>7, <1>8, <1>9, <1>10, <1>11, TreeAdds
<1> QED
  BY <1>1, <1>12

\* internal_rm keeps a tree.
LEMMA TreeRm ==
  ASSUME NEW d \in Store, TreeOK(d), NEW p \in Paths,
         NEW i \in CleanInode, i.valid = FALSE
  PROVE  TreeOK(internal_rm(d, p, i))
<1> DEFINE base == get_parent_inode(d, p)
           dir == EraseDentry(base, p)
           w == Put2(d, p, dir, i)
<1>1. internal_rm(d, p, i) = w
  BY DEF internal_rm, agg_rm, Put2
<1>2. base \in CleanInode /\ base = BaseOf(d, Parent[p]) /\ Parent[p] \in Paths
  BY Reads, NamespaceAssumption DEF get_parent_inode, BaseOf
<1> HIDE DEF base
<1>3. dir \in CleanInode
  <2>1. ListsOnly(base, Paths)
    BY DEF ListsOnly
  <2> QED
    BY <1>2, <2>1, EraseDentryClean
<1>4. /\ dir.valid = base.valid /\ dir.is_directory = base.is_directory
      /\ \A j \in BOOLEAN : dir.sub[Dentry(p, j)] = 0
      /\ \A r \in Paths, j \in BOOLEAN : dir.sub[Dentry(r, j)] > 0 => base.sub[Dentry(r, j)] > 0
  BY <1>2, EraseDentryOnly
<1> HIDE DEF dir
<1>5. /\ w \in Store /\ w.inodes[p] = i /\ (p # Parent[p] => w.inodes[Parent[p]] = dir)
      /\ \A q \in Paths \ {p, Parent[p]} : w.inodes[q] = d.inodes[q]
  <2>1. /\ Updates(w, d, {p, Parent[p]}) /\ w.inodes[p] = i
        /\ p # Parent[p] => w.inodes[Parent[p]] = dir
    BY <1>2, <1>3, PutTwo
  <2> HIDE DEF w
  <2> QED
    BY <2>1 DEF Updates
<1> HIDE DEF w
<1>6. w.inodes[p].valid = FALSE
  BY <1>5
<1>7. ASSUME p # Parent[p]
      PROVE  /\ OnlyAdds(d, w, {}, TRUE, Parent[p])
             /\ \A j \in BOOLEAN : w.inodes[Parent[p]].sub[Dentry(p, j)] = 0
  <2>1. Parent[p] \in Rec(w)
    BY <1>2, <1>3, <1>5, <1>7, NotFoundNoInode DEF Rec
  <2> QED
    BY <1>2, <1>4, <1>5, <1>7, <2>1 DEF OnlyAdds
<1>8. \A q \in Paths \ {p} :
            \/ w.inodes[q] = d.inodes[q] /\ q # Parent[p]
            \/ OnlyAdds(d, w, {}, TRUE, q) /\ \A j \in BOOLEAN : w.inodes[q].sub[Dentry(p, j)] = 0
  BY <1>5, <1>7
<1>9. TreeOK(w)
  BY <1>5, <1>6, <1>8, TreeRemove
<1> QED
  BY <1>1, <1>9

\* The flags of the record a put_ok leaves are the stored ones.
LEMMA PutOkRecordFlags ==
  ASSUME NEW d \in Store, NEW p \in Paths, NEW i \in CleanInode
  PROVE  /\ PutOkRecord(d, p, i).valid = get_inode(d, p).valid
         /\ PutOkRecord(d, p, i).is_directory = get_inode(d, p).is_directory
<1>1. get_inode(d, p) \in CleanInode
  BY Reads
<1> QED
  BY <1>1 DEF PutOkRecord, unlock, CleanInode

\* A file that is there is of no other kind.
LEMMA FileIsFile ==
  ASSUME NEW d \in Store, NEW p \in Paths, get_inode(d, p).valid, ~get_inode(d, p).is_directory
  PROVE  /\ p \in Rec(d) /\ get_inode(d, p) = d.inodes[p]
         /\ \A j \in BOOLEAN : IsOfKind(d, p, j) => j = FALSE
<1>1. p \in Rec(d)
  <2> SUFFICES ASSUME p \notin Rec(d) PROVE FALSE
    OBVIOUS
  <2>1. get_inode(d, p) = get_default_dir \/ get_inode(d, p) = NewInode(FALSE)
    BY DEF Rec, get_inode
  <2>2. get_default_dir.is_directory /\ ~NewInode(FALSE).valid
    BY DEF get_default_dir, NewInode
  <2> QED
    BY <2>1, <2>2
<1>2. get_inode(d, p) = d.inodes[p]
  BY <1>1 DEF Rec, get_inode
<1> QED
  BY <1>1, <1>2 DEF IsOfKind

\* internal_put_ok keeps a tree when a file is at the path.
LEMMA TreePutOk ==
  ASSUME NEW d \in Store, TreeOK(d), NEW p \in Paths,
         get_inode(d, p).valid, ~get_inode(d, p).is_directory,
         NEW i \in CleanInode, ~i.is_directory
  PROVE  TreeOK(internal_put_ok(d, p, i))
<1> DEFINE k == i.is_directory
           base == get_parent_inode(d, p)
           dir == AddDentry(base, Dentry(p, k))
           own == PutOkRecord(d, p, i)
           w == Put2(d, p, dir, own)
<1>1. internal_put_ok(d, p, i) = w
  BY DEF internal_put_ok, Put2, filename
<1>2. base \in CleanInode /\ base = BaseOf(d, Parent[p]) /\ Parent[p] \in Paths
  BY Reads, NamespaceAssumption DEF get_parent_inode, BaseOf
<1>3. k \in BOOLEAN /\ k = FALSE
  BY DEF CleanInode
<1>4. own \in CleanInode /\ own.valid /\ own.is_directory = FALSE
  <2>1. own.is_directory = get_inode(d, p).is_directory /\ own.valid = get_inode(d, p).valid
    BY PutOkRecordFlags
  <2>2. own \in CleanInode
    BY PutOkRecordClean
  <2>3. get_inode(d, p).is_directory \in BOOLEAN
    BY Reads DEF CleanInode
  <2> HIDE DEF own
  <2> QED
    BY <2>1, <2>2, <2>3
<1> HIDE DEF base, own, k
<1>5. /\ dir \in CleanInode
      /\ dir.valid = base.valid /\ dir.is_directory = base.is_directory
      /\ \A r \in Paths, j \in BOOLEAN : dir.sub[Dentry(r, j)] > 0 =>
           base.sub[Dentry(r, j)] > 0 \/ (r = p /\ j = k)
  <2>1. AddsOnly(dir, base, p, k)
    BY <1>2, <1>3, AddDentryOnly, Zenon
  <2> HIDE DEF dir
  <2> QED
    BY <2>1 DEF AddsOnly
<1> HIDE DEF dir
<1>6. /\ w \in Store /\ w.inodes[p] = own /\ (p # Parent[p] => w.inodes[Parent[p]] = dir)
      /\ \A q \in Paths \ {p, Parent[p]} : w.inodes[q] = d.inodes[q]
  <2>1. /\ Updates(w, d, {p, Parent[p]}) /\ w.inodes[p] = own
        /\ p # Parent[p] => w.inodes[Parent[p]] = dir
    BY <1>2, <1>4, <1>5, PutTwo
  <2> HIDE DEF w
  <2> QED
    BY <2>1 DEF Updates
<1> HIDE DEF w
<1>7. ASSUME p # Parent[p] PROVE OnlyAdds(d, w, {p}, k, Parent[p])
  <2>1. Parent[p] \in Rec(w)
    BY <1>2, <1>5, <1>6, <1>7, NotFoundNoInode DEF Rec
  <2> QED
    BY <1>2, <1>5, <1>6, <1>7, <2>1 DEF OnlyAdds
<1>8. p \in Rec(w)
  BY <1>4, <1>6, NotFoundNoInode DEF Rec
<1>9. IsOfKind(w, p, k)
  BY <1>3, <1>4, <1>6, <1>8 DEF IsOfKind
<1>10. \A j \in BOOLEAN : IsOfKind(d, p, j) => j = k
  BY <1>3, FileIsFile
<1>11. \A q \in Paths \ {p} : w.inodes[q] = d.inodes[q] \/ OnlyAdds(d, w, {p}, k, q)
  BY <1>6, <1>7
<1>12. {p} \in SUBSET Paths
  OBVIOUS
<1>13. TreeOK(w)
  BY <1>3, <1>6, <1>9, <1>10, <1>11, <1>12, TreeAdds
<1> QED
  BY <1>1, <1>13

\* internal_put_ok_batch keeps a tree when a file is at each path.
LEMMA TreePutOkBatch ==
  ASSUME NEW d \in Store, TreeOK(d), NEW S \in SUBSET Paths, NEW batch \in [S -> CleanInode],
         \A p \in S : /\ get_inode(d, p).valid /\ ~get_inode(d, p).is_directory
                      /\ ~batch[p].is_directory
  PROVE  TreeOK(internal_put_ok_batch(d, batch))
<1> DEFINE parents == {Parent[p] : p \in S}
           added(q) == {filename(p, batch[p]) : p \in {f \in S : Parent[f] = q}}
           base(q) == BaseOf(d, q)
           dir(q) == [base(q) EXCEPT !.sub = [x \in Items |->
                        IF x \in added(q) /\ base(q).sub[x] = 0 THEN 1 ELSE base(q).sub[x]]]
           rec(p) == PutOkRecord(d, p, batch[p])
           file(p) == IF batch[p].agg_inode_id = NoAgg THEN rec(p)
                      ELSE [rec(p) EXCEPT !.agg_inode_id = batch[p].agg_inode_id]
           new == [p \in Paths |-> IF p \in parents THEN dir(p)
                                   ELSE IF p \in S THEN file(p) ELSE d.inodes[p]]
           w == internal_put_ok_batch(d, batch)
<1>1. w = [d EXCEPT !.inodes = new]
  BY DOMAIN batch = S DEF internal_put_ok_batch, BaseOf
<1>2. w.inodes = new
  BY <1>1 DEF Store
<1>3. /\ w \in Store
      /\ \A p \in S \cup parents : p \in Paths /\ w.inodes[p] \in CleanInode
  BY PutOkBatchWrites DEF Updates
<1>4. PICK k \in BOOLEAN : k = FALSE
  OBVIOUS
<1>5. \A q \in Paths : base(q) \in CleanInode
  BY ConstantInodes DEF Store, BaseOf
<1>6. \A q \in Paths : /\ dir(q).valid = base(q).valid /\ dir(q).is_directory = base(q).is_directory
                       /\ \A x \in Items : dir(q).sub[x] > 0 => x \in added(q) \/ base(q).sub[x] > 0
  <2> TAKE q \in Paths
  <2>1. base(q) \in CleanInode
    BY <1>5
  <2> HIDE DEF added, base
  <2>2. \A x \in Items : dir(q).sub[x] > 0 => x \in added(q) \/ base(q).sub[x] > 0
    BY <2>1, AddManyClean
  <2>3. dir(q).valid = base(q).valid /\ dir(q).is_directory = base(q).is_directory
    BY <2>1 DEF CleanInode
  <2> HIDE DEF dir
  <2> QED
    BY <2>2, <2>3
<1>7. \A p \in S : file(p).valid /\ file(p).is_directory = FALSE
  <2> TAKE p \in S
  <2>1. rec(p) \in CleanInode /\ rec(p).valid /\ rec(p).is_directory = get_inode(d, p).is_directory
    BY PutOkRecordClean, PutOkRecordFlags
  <2>2. rec(p).is_directory \in BOOLEAN /\ ~rec(p).is_directory
    BY <2>1 DEF CleanInode
  <2> HIDE DEF rec
  <2> QED
    BY <2>1, <2>2 DEF CleanInode
<1>8. \A q \in Paths : w.inodes[q] = IF q \in parents THEN dir(q)
                                     ELSE IF q \in S THEN file(q) ELSE d.inodes[q]
  <2> HIDE DEF dir, file, w, parents
  <2> QED
    BY <1>2
<1>9. \A p \in S \cup parents : p \in Rec(w)
  <2> HIDE DEF w, parents
  <2> QED
    BY <1>3, NotFoundNoInode DEF Rec
<1>10. ASSUME NEW q \in parents PROVE OnlyAdds(d, w, S, k, q)
  <2>1. q \in Paths /\ q \in Rec(w) /\ w.inodes[q] = dir(q)
    BY <1>3, <1>8, <1>9, <1>10
  <2>2. /\ dir(q).valid = base(q).valid /\ dir(q).is_directory = base(q).is_directory
        /\ \A x \in Items : dir(q).sub[x] > 0 => x \in added(q) \/ base(q).sub[x] > 0
    BY <1>6, <2>1
  <2>3. ASSUME NEW r \in Paths, NEW j \in BOOLEAN, Dentry(r, j) \in added(q)
        PROVE  r \in S /\ Parent[r] = q /\ j = k
    <3>1. PICK f \in S : Parent[f] = q /\ Dentry(r, j) = filename(f, batch[f])
      BY <2>3
    <3>2. r = f /\ j = batch[f].is_directory
      BY <3>1 DEF Dentry, filename
    <3>3. batch[f].is_directory \in BOOLEAN /\ ~batch[f].is_directory
      BY <3>1 DEF CleanInode
    <3> QED
      BY <1>4, <3>1, <3>2, <3>3
  <2>4. \A r \in Paths, j \in BOOLEAN : Dentry(r, j) \in Items
    BY ConstantsList
  <2> HIDE DEF dir, added, w, parents, base
  <2>5. \A r \in Paths, j \in BOOLEAN : dir(q).sub[Dentry(r, j)] > 0 =>
          base(q).sub[Dentry(r, j)] > 0 \/ (r \in S /\ Parent[r] = q /\ j = k)
    BY <2>2, <2>3, <2>4
  <2> QED
    BY <2>1, <2>2, <2>5 DEF OnlyAdds, base
<1>11. \A q \in Paths \ S : w.inodes[q] = d.inodes[q] \/ OnlyAdds(d, w, S, k, q)
  <2> HIDE DEF dir, file, w, parents
  <2> QED
    BY <1>8, <1>10
<1>12. ASSUME NEW p \in S PROVE IsOfKind(w, p, k) /\ \A j \in BOOLEAN : IsOfKind(d, p, j) => j = k
  <2>1. \A j \in BOOLEAN : IsOfKind(d, p, j) => j = k
    BY <1>4, FileIsFile
  <2>2. w.inodes[p].valid /\ w.inodes[p].is_directory = FALSE
    <3>1. CASE p \in parents
      <4>1. base(p) = get_inode(d, p)
        BY FileIsFile DEF BaseOf, Rec
      <4>2. get_inode(d, p).is_directory \in BOOLEAN
        BY Reads DEF CleanInode
      <4>3. w.inodes[p] = dir(p) /\ dir(p).valid = base(p).valid /\ dir(p).is_directory = base(p).is_directory
        BY <1>6, <1>8, <3>1
      <4> HIDE DEF dir, w, base
      <4> QED
        BY <4>1, <4>2, <4>3
    <3>2. CASE p \notin parents
      <4>1. w.inodes[p] = file(p)
        BY <1>8, <3>2
      <4> HIDE DEF file, w
      <4> QED
        BY <1>7, <4>1
    <3> QED
      BY <3>1, <3>2
  <2> HIDE DEF w
  <2> QED
    BY <1>4, <1>9, <2>1, <2>2 DEF IsOfKind
<1> HIDE DEF w
<1>13. TreeOK(w)
  BY <1>3, <1>4, <1>11, <1>12, TreeAdds
<1> QED
  BY <1>13 DEF w

\* Putting an inode at one path.
LEMMA PutOne ==
  ASSUME NEW d \in Store, NEW p \in Paths, NEW i \in CleanInode
  PROVE  LET w == internal_put(d, p, i)
         IN  /\ w \in Store /\ w.inodes[p] = i /\ p \in Rec(w)
             /\ \A q \in Paths \ {p} : w.inodes[q] = d.inodes[q]
<1> DEFINE w == internal_put(d, p, i)
<1>1. /\ w \in Store /\ w.inodes[p] = i
      /\ \A q \in Paths \ {p} : w.inodes[q] = d.inodes[q]
  BY DEF internal_put, Store
<1> HIDE DEF w
<1>2. p \in Rec(w)
  BY <1>1, NotFoundNoInode DEF Rec
<1> QED
  BY <1>1, <1>2 DEF w

\* An entry that fits keeps a tree; one that puts whole inodes keeps the subs,
\* and one of update_lock everything but a deadline.
LEMMA FittingEntry ==
  ASSUME NEW d \in Store, TreeOK(d), NEW e \in Entry, NEW op \in RequestOps, NEW t,
         EntryFits(e, op, d, t)
  PROVE  /\ TreeOK(Writes(d, e))
         /\ e.op \in {"OP_PUT", "OP_PUTBATCH"} => SameSubs(d, Writes(d, e))
         /\ op = "update_lock" => SameContent(d, Writes(d, e))
<1> DEFINE p == PathOf(e)
           i == e.inodes[p]
           w == Writes(d, e)
<1>1. e.op = FirstOp[op] /\ e.op \in OpTypes
  BY DEF EntryFits, FirstOp, RequestOps, OpTypes
<1>2. /\ DOMAIN e.inodes \in SUBSET Paths /\ e.inodes \in [DOMAIN e.inodes -> CleanInode]
      /\ p \in DOMAIN e.inodes
  BY <1>1, EntryShape DEF OpTypes
<1>3. p \in Paths /\ i \in CleanInode
  BY <1>2
<1>4. \A q \in DOMAIN e.inodes : Fits(op, d, q, e.inodes[q], t)
  BY DEF EntryFits
<1>5. Fits(op, d, p, i, t)
  BY <1>2, <1>4
<1> HIDE DEF p, i
<1>6. CASE op = "mkdir"
  <2>1. e.op = "OP_MKDIR"
    BY <1>1, <1>6 DEF FirstOp
  <2>2. p # Root /\ ~get_inode(d, p).valid /\ i = get_default_dir
    BY <1>5, <1>6 DEF Fits
  <2>3. w = internal_mkdir(d, p, get_default_dir)
    BY <2>1, <2>2 DEF Writes, PathOf, p, i
  <2>4. TreeOK(w)
    BY <1>3, <2>2, <2>3, TreeMkdir
  <2> QED
    BY <1>6, <2>1, <2>4
<1>7. CASE op = "rm"
  <2>1. e.op = "OP_RM"
    BY <1>1, <1>7 DEF FirstOp
  <2>2. i.valid = FALSE
    BY <1>5, <1>7 DEF Fits, NewInode
  <2>3. w = internal_rm(d, p, i)
    BY <2>1 DEF Writes, PathOf, p, i
  <2>4. TreeOK(w)
    BY <1>3, <2>2, <2>3, TreeRm
  <2> QED
    BY <1>7, <2>1, <2>4
<1>8. CASE op \in {"put", "update_lock"}
  <2>1. e.op = "OP_PUT"
    BY <1>1, <1>8 DEF FirstOp
  <2>2. w = internal_put(d, p, i)
    BY <2>1 DEF Writes, PathOf, p, i
  <2>3. /\ w \in Store /\ w.inodes[p] = i /\ p \in Rec(w)
        /\ \A q \in Paths \ {p} : w.inodes[q] = d.inodes[q]
    BY <1>3, <2>2, PutOne
  <2>4. PutFits(d, p, i)
    BY <1>5, <1>8 DEF Fits, PutFits
  <2> HIDE DEF w
  <2>5. {p} \in SUBSET Paths
    BY <1>3
  <2>6. TreeOK(w) /\ SameSubs(d, w)
    BY <2>3, <2>4, <2>5, TreePuts
  <2>7. ASSUME op = "update_lock" PROVE SameContent(d, w)
    <3>1. unlock(i) = unlock(get_inode(d, p))
      BY <1>5, <2>7 DEF Fits
    <3>2. get_inode(w, p) = i /\ \A q \in Paths \ {p} : get_inode(w, q) = get_inode(d, q)
      BY <2>3 DEF get_inode, Rec
    <3> QED
      BY <3>1, <3>2 DEF SameContent
  <2> QED
    BY <2>6, <2>7 DEF w
<1>9. CASE op = "put_batch"
  <2>1. e.op = "OP_PUTBATCH"
    BY <1>1, <1>9 DEF FirstOp
  <2>2. w = internal_put_batch(d, e.inodes)
    BY <2>1 DEF Writes
  <2> DEFINE new == [q \in Paths |-> IF q \in DOMAIN e.inodes THEN e.inodes[q] ELSE d.inodes[q]]
  <2>3. w = [d EXCEPT !.inodes = new]
    BY <2>2 DEF internal_put_batch
  <2>4. w.inodes = new
    BY <2>3 DEF Store
  <2>5. w \in Store
    BY ApplyEntry
  <2> HIDE DEF w
  <2>6. /\ \A q \in DOMAIN e.inodes : w.inodes[q] = e.inodes[q]
        /\ \A q \in Paths \ DOMAIN e.inodes : w.inodes[q] = d.inodes[q]
    BY <1>2, <2>4
  <2>7. \A q \in DOMAIN e.inodes : q \in Rec(w) /\ PutFits(d, q, w.inodes[q])
    <3> TAKE q \in DOMAIN e.inodes
    <3>1. q \in Paths /\ e.inodes[q] \in CleanInode /\ w.inodes[q] = e.inodes[q]
      BY <1>2, <2>6
    <3>2. Fits("put_batch", d, q, e.inodes[q], t)
      BY <1>4, <1>9
    <3> QED
      BY <3>1, <3>2, NotFoundNoInode DEF Rec, Fits, PutFits
  <2>8. TreeOK(w) /\ SameSubs(d, w)
    BY <1>2, <2>5, <2>6, <2>7, TreePuts
  <2> QED
    BY <1>9, <2>8 DEF w
<1>10. CASE op = "put_ok"
  <2>1. e.op = "OP_PUTOK"
    BY <1>1, <1>10 DEF FirstOp
  <2>2. get_inode(d, p).valid /\ ~get_inode(d, p).is_directory /\ ~i.is_directory
    BY <1>5, <1>10 DEF Fits
  <2>3. w = internal_put_ok(d, p, i)
    BY <2>1 DEF Writes, PathOf, p, i
  <2>4. TreeOK(w)
    BY <1>3, <2>2, <2>3, TreePutOk
  <2> QED
    BY <1>10, <2>1, <2>4
<1>11. CASE op = "put_ok_batch"
  <2>1. e.op = "OP_PUTOKBATCH"
    BY <1>1, <1>11 DEF FirstOp
  <2>2. \A q \in DOMAIN e.inodes : /\ get_inode(d, q).valid /\ ~get_inode(d, q).is_directory
                                   /\ ~e.inodes[q].is_directory
    BY <1>4, <1>11 DEF Fits
  <2>3. w = internal_put_ok_batch(d, e.inodes)
    BY <2>1 DEF Writes
  <2>4. TreeOK(w)
    BY <1>2, <2>2, <2>3, TreePutOkBatch
  <2> QED
    BY <1>11, <2>1, <2>4
<1> QED
  BY <1>6, <1>7, <1>8, <1>9, <1>10, <1>11 DEF RequestOps

\* The record of an aggregate file changes no inode.
LEMMA AggEntry ==
  ASSUME NEW d \in Store, NEW e \in Entry, e.op = "OP_PUTAGG"
  PROVE  /\ Writes(d, e).inodes = d.inodes
         /\ TreeOK(d) => TreeOK(Writes(d, e))
         /\ Alike(d, Writes(d, e))
<1> DEFINE w == Writes(d, e)
<1>1. e.id \in AggIds /\ e.files \subseteq Paths
  BY EntryShape DEF OpTypes
<1>2. w = internal_put_agg(d, e.id, e.files)
  BY DEF Writes
<1>3. w.inodes = d.inodes
  BY <1>1, <1>2 DEF internal_put_agg, Store, AggInode
<1> HIDE DEF w
<1>4. (TreeOK(d) => TreeOK(w)) /\ Alike(d, w)
  BY <1>3 DEF TreeOK, IsDir, IsOfKind, Rec, Alike, SameContent, get_inode
<1> QED
  BY <1>3, <1>4 DEF w

-----------------------------------------------------------------------------
(* What a handler prepares fits                                            *)

\* To be alike is an equivalence.
LEMMA AlikeEquivalence ==
  ASSUME NEW d, NEW w, NEW v
  PROVE  /\ Alike(d, d)
         /\ Alike(d, w) => Alike(w, d)
         /\ Alike(d, w) /\ Alike(w, v) => Alike(d, v)
  BY DEF Alike, SameContent

\* Inodes of the same content have the same flags and subs.
LEMMA UnlockedFields ==
  ASSUME NEW i \in CleanInode, NEW j \in CleanInode, unlock(i) = unlock(j)
  PROVE  i.valid = j.valid /\ i.is_directory = j.is_directory /\ i.sub = j.sub
<1>1. ASSUME NEW x \in CleanInode
      PROVE  unlock(x).valid = x.valid /\ unlock(x).is_directory = x.is_directory /\ unlock(x).sub = x.sub
  BY DEF unlock, CleanInode
<1> QED
  BY <1>1

\* What fits a store fits every one like it.
LEMMA FitsAlike ==
  ASSUME NEW d \in Store, NEW w \in Store, Alike(d, w), NEW op, NEW p \in Paths, NEW i, NEW t,
         Fits(op, d, p, i, t)
  PROVE  Fits(op, w, p, i, t)
<1> DEFINE a == get_inode(d, p)
           b == get_inode(w, p)
<1>1. a \in CleanInode /\ b \in CleanInode /\ unlock(a) = unlock(b)
  BY Reads DEF Alike, SameContent
<1>2. a.valid = b.valid /\ a.is_directory = b.is_directory /\ a.sub = b.sub
  BY <1>1, UnlockedFields
<1>3. OnePathRefresh => a = b
  BY DEF Alike, get_inode
<1>4. /\ op = "mkdir" => p # Root /\ ~a.valid /\ i = get_default_dir
      /\ op = "rm" => i = NewInode(FALSE)
      /\ op \in {"put", "put_batch", "update_lock"} =>
           i.valid /\ i.sub = a.sub /\ i.is_directory = (a.valid /\ a.is_directory)
      /\ op = "update_lock" => unlock(i) = unlock(a)
      /\ op \in {"put_ok", "put_ok_batch"} => a.valid /\ ~a.is_directory /\ ~i.is_directory
      /\ op \in {"put", "put_batch"} /\ OnePathRefresh => a.ddl_lock < t
  BY DEF Fits
<1> HIDE DEF a, b
<1>5. /\ op = "mkdir" => p # Root /\ ~b.valid /\ i = get_default_dir
      /\ op = "rm" => i = NewInode(FALSE)
      /\ op \in {"put", "put_batch", "update_lock"} =>
           i.valid /\ i.sub = b.sub /\ i.is_directory = (b.valid /\ b.is_directory)
      /\ op = "update_lock" => unlock(i) = unlock(b)
      /\ op \in {"put_ok", "put_ok_batch"} => b.valid /\ ~b.is_directory /\ ~i.is_directory
      /\ op \in {"put", "put_batch"} /\ OnePathRefresh => b.ddl_lock < t
  BY <1>1, <1>2, <1>3, <1>4
<1> QED
  BY <1>5 DEF Fits, b

\* What fits now fits later.
LEMMA FitsLater ==
  ASSUME NEW d \in Store, NEW op, NEW p \in Paths, NEW i, NEW t \in Nat, NEW u \in Nat, t <= u,
         Fits(op, d, p, i, t)
  PROVE  Fits(op, d, p, i, u)
<1>1. get_inode(d, p).ddl_lock \in Nat
  BY Reads DEF CleanInode
<1>2. op \in {"put", "put_batch"} /\ OnePathRefresh => get_inode(d, p).ddl_lock < u
  <2>1. op \in {"put", "put_batch"} /\ OnePathRefresh => get_inode(d, p).ddl_lock < t
    BY DEF Fits
  <2> QED
    BY <1>1, <2>1
<1> QED
  BY <1>2 DEF Fits

\* What a handler prepares fits the store it read.
LEMMA PreparedFits ==
  ASSUME TypeInv, NEW c \in Active, NEW p \in Paths, CanPrepare(c, p)
  PROVE  Fits(c.op, db[c.node], p, Prepared(c, p), clock)
<1> DEFINE d == db[c.node]
           g == get_inode(d, p)
           i == Prepared(c, p)
<1>1. d \in Store /\ clock \in Nat /\ c.op \in RequestOps /\ LOCK_REFRESH_INTERVAL \in Nat
  BY NamespaceAssumption DEF TypeInv, Active
<1>2. g \in CleanInode
  BY <1>1, Reads
<1>3. CASE c.op = "mkdir"
  <2>1. i = get_default_dir /\ ~path_exists(d, p)
    BY <1>3 DEF Prepared, CanPrepare, CanMkdir
  <2>2. p # Root /\ ~g.valid
    BY <2>1 DEF path_exists, get_inode, NewInode
  <2> HIDE DEF i, d, g
  <2> QED
    BY <1>3, <2>1, <2>2 DEF Fits, d, g, i
<1>4. CASE c.op = "rm"
  <2>1. i = NewInode(FALSE)
    BY <1>4 DEF Prepared, prepare_rm
  <2> HIDE DEF i, d, g
  <2> QED
    BY <1>4, <2>1 DEF Fits, i
<1>5. CASE c.op \in {"put", "put_batch"}
  <2>1. i = update_ddl_lock([g EXCEPT !.is_directory = FALSE, !.valid = TRUE], clock)
    BY <1>5 DEF Prepared, prepare_put
  <2>2. ~(g.valid /\ g.is_directory) /\ ~(g.ddl_lock >= clock)
    BY <1>5 DEF CanPrepare, CanPut, LockConflict
  <2> HIDE DEF i, d, g
  <2>3. i.valid /\ i.sub = g.sub /\ i.is_directory = FALSE
    BY <1>2, <2>1 DEF update_ddl_lock, CleanInode
  <2>4. g.ddl_lock < clock
    BY <1>1, <1>2, <2>2 DEF CleanInode
  <2>5. i.is_directory = (g.valid /\ g.is_directory)
    BY <2>2, <2>3
  <2> QED
    BY <1>5, <2>3, <2>4, <2>5 DEF Fits, d, g, i
<1>6. CASE c.op = "update_lock"
  <2>1. i = update_ddl_lock(g, clock) /\ g.valid
    BY <1>6 DEF Prepared, CanPrepare, CanLs
  <2> HIDE DEF i, d, g
  <2>2. i.valid = g.valid /\ i.sub = g.sub /\ i.is_directory = g.is_directory /\ g.is_directory \in BOOLEAN
    BY <1>2, <2>1 DEF update_ddl_lock, CleanInode
  <2>3. unlock(i) = unlock(g)
    BY <1>2, <2>1 DEF update_ddl_lock, unlock, CleanInode
  <2>4. i.valid /\ i.is_directory = (g.valid /\ g.is_directory)
    BY <2>1, <2>2
  <2> QED
    BY <1>6, <2>2, <2>3, <2>4 DEF Fits, d, g, i
<1>7. CASE c.op \in {"put_ok", "put_ok_batch"}
  <2>1. i = IF c.op = "put_ok" THEN [g EXCEPT !.sub = FileSub(c.blocks)]
            ELSE [[g EXCEPT !.sub = FileSub(c.blocks)] EXCEPT !.agg_inode_id = c.id]
    BY <1>7 DEF Prepared, prepare_put_ok
  <2>2. g.valid /\ ~g.is_directory
    BY <1>7 DEF CanPrepare, CanPutOk
  <2> HIDE DEF i, d, g
  <2>3. i.is_directory = g.is_directory
    BY <1>2, <2>1 DEF CleanInode
  <2> QED
    BY <1>7, <2>2, <2>3 DEF Fits, d, g, i
<1> QED
  BY <1>1, <1>3, <1>4, <1>5, <1>6, <1>7 DEF RequestOps

\* So does what it proposes.
LEMMA ProposalsFit ==
  ASSUME NEW op \in RequestOps, NEW m, NEW id, NEW d, NEW t,
         \A p \in DOMAIN m : Fits(op, d, p, m[p], t)
  PROVE  LET s == Proposals(op, m, id)
         IN  s # << >> /\ EntryFits(s[1], op, d, t) /\ (Tail(s) = << >> \/ AggOnly(Tail(s)))
<1> DEFINE e == [op |-> FirstOp[op], inodes |-> m]
           a == [op |-> "OP_PUTAGG", id |-> id, files |-> DOMAIN m]
<1>1. EntryFits(e, op, d, t)
  BY DEF EntryFits
<1>2. a.op = "OP_PUTAGG"
  OBVIOUS
<1>3. Proposals(op, m, id) = IF op = "put_ok_batch" THEN <<e, a>> ELSE <<e>>
  BY DEF Proposals, RequestOps, FirstOp
<1> HIDE DEF e, a
<1> QED
  BY <1>1, <1>2, <1>3 DEF AggOnly

-----------------------------------------------------------------------------
(* Steps of requests one after the other                                   *)

\* Handler h belongs to the leader, or may still.
Live(c, m) == c # Idle /\ (c.node = m \/ m = NoLeader)

\* While no entry of a handler is pending, its node's store is like the newest.
LEMMA ReadsNewest ==
  ASSUME Serial, IInv, InOrder, NEW h \in Handlers, Live(rpc[h], leader), ~Pending(rpc[h], leader)
  PROVE  Alike(db[rpc[h].node], hist[Len(hist)])
<1> DEFINE n == rpc[h].node
<1>1. rpc[h] \in Active /\ n \in Nodes
  BY DEF IInv, TypeInv, Live, Active
<1>2. /\ applied[n] \in Nat /\ applied[n] <= Len(log) /\ Len(hist) = Len(log) + 1 /\ Len(log) \in Nat
      /\ db[n] = hist[applied[n] + 1]
  BY <1>1 DEF IInv, TypeInv, InOrder, ExactInv
<1> HIDE DEF n
<1>3. CASE leader = NoLeader
  <2>1. Len(log) = 0
    BY <1>3 DEF InOrder, LeaderInv
  <2>2. applied[n] + 1 = Len(hist)
    BY <1>2, <2>1
  <2> QED
    BY <1>2, <2>2, AlikeEquivalence DEF n
<1>4. CASE leader # NoLeader
  <2>1. leader = n
    BY <1>4 DEF Live, n
  <2>2. \A g \in Handlers : ~Pending(rpc[g], leader)
    BY DEF Serial
  <2>3. Settled(applied[n], hist)
    BY <1>4, <2>1, <2>2 DEF InOrder, LeaderInv
  <2>4. applied[n] + 1 \in (applied[n] + 1)..Len(hist)
    BY <1>2
  <2> QED
    BY <1>2, <2>3, <2>4 DEF Settled, n
<1> QED
  BY <1>3, <1>4

\* A handler with paths to prepare has no entry pending.
LEMMA TodoNotPending ==
  ASSUME InOrder, NEW h \in Handlers, rpc[h].todo # {}
  PROVE  ~Pending(rpc[h], leader)
<1> SUFFICES ASSUME Pending(rpc[h], leader) PROVE FALSE
  OBVIOUS
<1>1. RequestFits(rpc[h], hist[Len(hist)], clock)
  BY DEF InOrder, FitInv, Pending
<1> QED
  BY <1>1 DEF RequestFits, Pending

\* A step of one handler that leaves the log, the stores and the leader alone.
LEMMA HandlerStep ==
  ASSUME Serial, IInv, InOrder, NEW h \in Handlers, NEW c, rpc' = [rpc EXCEPT ![h] = c],
         UNCHANGED <<log, hist, db, applied, up, leader, clock>>,
         \/ Pending(rpc[h], leader) /\ Pending(c, leader) /\ c.wait = rpc[h].wait
         \/ /\ ~Pending(c, leader)
            /\ Pending(rpc[h], leader) => leader # NoLeader /\ Settled(applied[leader], hist),
         Live(c, leader) => RequestFits(c, hist[Len(hist)], clock)
  PROVE  InOrder'
<1>1. rpc'[h] = c /\ \A g \in Handlers : g = h
  BY DEF IInv, TypeInv, Serial
<1>2. ExactInv' /\ ContentInv'
  BY DEF InOrder, ExactInv, ContentInv
<1>3. FitInv'
  BY <1>1 DEF FitInv, Live
<1>4. LeaderInv'
  <2>1. ASSUME leader # NoLeader
        PROVE  /\ Pending(c, leader) => Settled(c.wait, hist)
               /\ ~Pending(c, leader) => Settled(applied[leader], hist)
    <3>1. CASE Pending(rpc[h], leader) /\ Pending(c, leader) /\ c.wait = rpc[h].wait
      BY <2>1, <3>1 DEF InOrder, LeaderInv
    <3>2. CASE ~Pending(c, leader) /\ Pending(rpc[h], leader)
      BY <3>2
    <3>3. CASE ~Pending(c, leader) /\ ~Pending(rpc[h], leader)
      <4>1. \A g \in Handlers : ~Pending(rpc[g], leader)
        BY <1>1, <3>3
      <4> QED
        BY <2>1, <3>3, <4>1 DEF InOrder, LeaderInv
    <3> QED
      BY <3>1, <3>2, <3>3
  <2>2. leader = NoLeader => Len(log) = 0
    BY DEF InOrder, LeaderInv
  <2> QED
    BY <1>1, <2>1, <2>2 DEF LeaderInv
<1> QED
  BY <1>2, <1>3, <1>4 DEF InOrder

\* A request arrives.
LEMMA CallInOrder ==
  ASSUME Serial, IInv, InOrder, NEW h \in Handlers, NEW n \in Nodes, NEW r \in Requests, Call(h, n, r)
  PROVE  InOrder'
<1>1. PICK id : /\ rpc[h] = Idle /\ rpc' = [rpc EXCEPT ![h] = Busy(r, n, id)]
                /\ UNCHANGED <<log, hist, db, applied, up, leader, clock>>
  BY DEF Call
<1> DEFINE c == Busy(r, n, id)
<1>2. /\ c.op = r.op /\ c.todo = r.paths /\ c.inodes = << >> /\ c.entries = << >> /\ c.wait = 0
  BY DEF Busy
<1> HIDE DEF c
<1>3. ~Pending(rpc[h], leader) /\ ~Pending(c, leader)
  BY <1>1, <1>2 DEF Pending
<1>4. DOMAIN c.inodes = {}
  BY <1>2
<1>5. c.op = "update_lock" /\ OnePathRefresh => \A p, q \in c.todo : p = q
  BY <1>2 DEF OnePathRefresh
<1>6. RequestFits(c, hist[Len(hist)], clock)
  BY <1>2, <1>4, <1>5 DEF RequestFits
<1> QED
  BY <1>1, <1>3, <1>6, HandlerStep DEF c

\* A path is prepared.
LEMMA PrepareInOrder ==
  ASSUME Serial, IInv, InOrder, NEW h \in Handlers, NEW p \in Paths, Prepare(h, p)
  PROVE  InOrder'
<1> DEFINE c == rpc[h]
           i == Prepared(c, p)
           now == [q \in DOMAIN c.inodes \cup {p} |-> IF q = p THEN i ELSE c.inodes[q]]
           ready == c.op = "update_lock" \/ c.todo = {p}
           new == [c EXCEPT !.todo = @ \ {p},
                            !.inodes = IF ready THEN << >> ELSE now,
                            !.entries = IF ready THEN Proposals(c.op, now, c.id) ELSE @]
           w == hist[Len(hist)]
<1>1. /\ c # Idle /\ p \in c.todo /\ c.entries = << >> /\ CanPrepare(c, p)
      /\ rpc' = [rpc EXCEPT ![h] = new]
      /\ UNCHANGED <<log, hist, db, applied, up, leader, clock>>
  BY DEF Prepare
<1>2. c \in Active /\ TypeInv
  BY <1>1 DEF IInv, TypeInv
<1>3. c.op \in RequestOps /\ c.node \in Nodes /\ db[c.node] \in Store /\ w \in Store
  BY <1>2, HistTypes DEF Active, TypeInv
<1>4. Fits(c.op, db[c.node], p, i, clock)
  BY <1>1, <1>2, PreparedFits
<1> HIDE DEF i, ready, now
<1>5. /\ new # Idle /\ new.op = c.op /\ new.node = c.node /\ new.wait = c.wait
      /\ new.todo = c.todo \ {p}
      /\ new.inodes = (IF ready THEN << >> ELSE now)
      /\ new.entries = (IF ready THEN Proposals(c.op, now, c.id) ELSE << >>)
  BY <1>1, <1>2 DEF Active, Idle, RequestOps
<1> HIDE DEF new
<1>6. ~Pending(c, leader)
  BY <1>1, TodoNotPending
<1>7. ~Pending(new, leader)
  BY <1>1, <1>5, <1>6 DEF Pending, Refreshing
<1>8. ASSUME Live(new, leader) PROVE RequestFits(new, w, clock)
  <2>1. Live(c, leader)
    BY <1>1, <1>5, <1>8 DEF Live
  <2>2. RequestFits(c, w, clock)
    BY <2>1 DEF InOrder, FitInv, Live
  <2>3. Alike(db[c.node], w)
    BY <1>6, <2>1, ReadsNewest
  <2> HIDE DEF c, w
  <2>4. Fits(c.op, w, p, i, clock)
    BY <1>3, <1>4, <2>3, FitsAlike
  <2>5. \A q \in DOMAIN now : Fits(c.op, w, q, now[q], clock)
    BY <2>2, <2>4 DEF RequestFits, now
  <2>6. c.wait > 0 => Refreshing(c)
    BY <1>1, <2>2 DEF RequestFits
  <2>7. Refreshing(new) <=> Refreshing(c)
    BY <1>5 DEF Refreshing
  <2>8. new.op = "update_lock" /\ OnePathRefresh => new.todo = {}
    BY <1>1, <1>5, <2>2 DEF RequestFits
  <2>9. CASE ready
    <3> DEFINE s == Proposals(c.op, now, c.id)
    <3>1. s # << >> /\ EntryFits(s[1], c.op, w, clock) /\ (Tail(s) = << >> \/ AggOnly(Tail(s)))
      BY <1>3, <2>5, ProposalsFit
    <3>2. new.entries = s /\ DOMAIN new.inodes = {}
      BY <1>5, <2>9
    <3>3. new.todo = {} \/ Refreshing(new)
      <4>1. CASE c.op = "update_lock"
        BY <1>5, <2>8, <4>1 DEF Refreshing
      <4>2. CASE c.todo = {p}
        BY <1>5, <4>2
      <4> QED
        BY <2>9, <4>1, <4>2 DEF ready
    <3> HIDE DEF s
    <3> QED
      BY <1>5, <2>6, <2>7, <2>8, <3>1, <3>2, <3>3 DEF RequestFits
  <2>10. CASE ~ready
    <3>1. c.op # "update_lock" /\ ~(c.wait > 0)
      BY <2>6, <2>10 DEF ready, Refreshing
    <3>2. new.inodes = now /\ new.entries = << >>
      BY <1>5, <2>10
    <3> QED
      BY <1>5, <2>5, <3>1, <3>2 DEF RequestFits
  <2> QED
    BY <2>9, <2>10
<1> QED
  BY <1>1, <1>6, <1>7, <1>8, HandlerStep

\* Preparing fails, or the response is sent: the handler is idle again.
LEMMA AnswerInOrder ==
  ASSUME Serial, IInv, InOrder, NEW h \in Handlers,
         (\E p \in Paths : PrepareThrows(h, p)) \/ Respond(h)
  PROVE  InOrder'
<1>1. /\ rpc' = [rpc EXCEPT ![h] = Idle]
      /\ UNCHANGED <<log, hist, db, applied, up, leader, clock>>
  BY DEF PrepareThrows, Respond
<1>2. ~Pending(Idle, leader) /\ ~Live(Idle, leader)
  BY DEF Pending, Live
<1>3. ASSUME Pending(rpc[h], leader) PROVE leader # NoLeader /\ Settled(applied[leader], hist)
  <2>1. rpc[h].todo = {}
    BY <1>3, TodoNotPending
  <2>2. Respond(h)
    BY <2>1 DEF PrepareThrows
  <2>3. rpc[h] \in Active /\ rpc[h].node = leader /\ rpc[h].wait > 0
    BY <1>3 DEF IInv, TypeInv, Pending
  <2>4. leader \in Nodes /\ rpc[h].wait \in Nat
    BY <2>3 DEF Active
  <2>5. leader # NoLeader
    BY <2>4, NamenodeAssumption
  <2>6. Settled(rpc[h].wait, hist)
    BY <1>3, <2>5 DEF InOrder, LeaderInv
  <2>7. applied[leader] >= rpc[h].wait
    BY <2>2, <2>3 DEF Respond
  <2>8. applied[leader] \in Nat /\ Len(hist) \in Nat
    BY <2>4 DEF IInv, TypeInv
  <2>9. \A j \in (applied[leader] + 1)..Len(hist) : j \in (rpc[h].wait + 1)..Len(hist)
    BY <2>4, <2>7, <2>8
  <2> QED
    BY <2>5, <2>6, <2>9 DEF Settled
<1> QED
  BY <1>1, <1>2, <1>3, HandlerStep

\* A sequence of one element has nothing behind its head.
LEMMA TailOfOne ==
  ASSUME NEW S, NEW s \in Seq(S), Len(s) = 1
  PROVE  Tail(s) = << >>
<1>1. s # << >>
  OBVIOUS
<1>2. Tail(s) \in Seq(S) /\ Len(Tail(s)) = 0
  BY <1>1
<1> QED
  BY <1>2, EmptySeq

\* A proposal fails: what is left of the request still fits.
LEMMA ProposeFailsInOrder ==
  ASSUME Serial, IInv, InOrder, NEW h \in Handlers, ProposeFails(h)
  PROVE  InOrder'
<1> DEFINE c == rpc[h]
           new == [c EXCEPT !.entries = Tail(@)]
           w == hist[Len(hist)]
<1>1. /\ c # Idle /\ c.entries # << >> /\ leader # c.node
      /\ rpc' = [rpc EXCEPT ![h] = new]
      /\ UNCHANGED <<log, hist, db, applied, up, leader, clock>>
  BY DEF ProposeFails
<1>2. c \in Active /\ c.entries \in Seq(Entry)
  BY <1>1 DEF IInv, TypeInv, Active
<1>3. /\ new # Idle /\ new.op = c.op /\ new.node = c.node /\ new.wait = c.wait
      /\ new.todo = c.todo /\ new.inodes = c.inodes /\ new.entries = Tail(c.entries)
  BY <1>2 DEF Active, Idle, RequestOps
<1> HIDE DEF new
<1>4. ~Pending(c, leader) /\ ~Pending(new, leader)
  BY <1>1, <1>3 DEF Pending
<1>5. ASSUME Live(new, leader) PROVE RequestFits(new, w, clock)
  <2>1. RequestFits(c, w, clock)
    BY <1>1, <1>3, <1>5 DEF InOrder, FitInv, Live
  <2> HIDE DEF c, w
  <2>2. Tail(c.entries) = << >> \/ AggOnly(Tail(c.entries))
    <3>1. CASE AggOnly(c.entries)
      <4>1. Len(c.entries) = 1
        BY <3>1 DEF AggOnly
      <4> QED
        BY <1>2, <4>1, TailOfOne
    <3>2. CASE ~AggOnly(c.entries)
      BY <1>1, <2>1, <3>2 DEF RequestFits
    <3> QED
      BY <3>1, <3>2
  <2>3. Refreshing(new) <=> Refreshing(c)
    BY <1>3 DEF Refreshing
  <2>4. DOMAIN c.inodes = {} /\ (c.todo = {} \/ Refreshing(c))
        /\ (c.op = "update_lock" /\ OnePathRefresh => \A p, q \in c.todo : p = q)
    BY <1>1, <2>1 DEF RequestFits
  <2> QED
    BY <1>3, <2>2, <2>3, <2>4 DEF RequestFits
<1> QED
  BY <1>1, <1>4, <1>5, HandlerStep

\* An entry is appended whose store is like the newest one: the stores that
\* were like that one are like the new one.
LEMMA SettledGrows ==
  ASSUME NEW w \in Store, NEW k \in Nat, hist \in Seq(Store), Len(hist) > 0,
         \/ Alike(hist[Len(hist)], w) /\ Settled(k, hist)
         \/ k >= Len(hist)
  PROVE  Settled(k, Append(hist, w))
<1> DEFINE h == Append(hist, w)
<1>1. Len(h) = Len(hist) + 1 /\ h[Len(h)] = w /\ Len(hist) \in Nat
      /\ \A i \in 1..Len(hist) : h[i] = hist[i]
  OBVIOUS
<1> HIDE DEF h
<1> SUFFICES ASSUME NEW i \in (k + 1)..Len(h) PROVE Alike(h[i], w)
  BY <1>1 DEF Settled, h
<1>2. CASE i = Len(h)
  BY <1>1, <1>2, AlikeEquivalence
<1>3. CASE i # Len(h)
  <2>1. i \in (k + 1)..Len(hist) /\ i \in 1..Len(hist)
    BY <1>1, <1>3
  <2>2. Alike(hist[Len(hist)], w) /\ Settled(k, hist)
    BY <1>1, <2>1
  <2>3. Alike(hist[i], hist[Len(hist)])
    BY <2>1, <2>2 DEF Settled
  <2> QED
    BY <1>1, <2>1, <2>2, <2>3, AlikeEquivalence
<1> QED
  BY <1>2, <1>3

\* The leader accepts an entry.  It fits the newest store, so the next store is
\* a tree again.
LEMMA ProposeInOrder ==
  ASSUME Serial, IInv, InOrder, NEW h \in Handlers, Propose(h)
  PROVE  InOrder'
<1> DEFINE c == rpc[h]
           e == Head(c.entries)
           d == hist[Len(hist)]
           w == Writes(d, e)
           new == [c EXCEPT !.entries = Tail(@), !.wait = IF @ = 0 THEN Len(log) + 1 ELSE @]
<1>1. /\ c # Idle /\ c.entries # << >> /\ leader = c.node
      /\ log' = Append(log, e) /\ hist' = Append(hist, w)
      /\ rpc' = [rpc EXCEPT ![h] = new]
      /\ UNCHANGED <<db, applied, up, leader, clock>>
  BY DEF Propose
<1>2. /\ c \in Active /\ c.entries \in Seq(Entry) /\ c.wait \in Nat /\ c.op \in RequestOps
      /\ c.node \in Nodes
  BY <1>1 DEF IInv, TypeInv, Active
<1>3. /\ log \in Seq(Entry) /\ hist \in Seq(Store) /\ Len(hist) = Len(log) + 1 /\ Len(log) \in Nat
      /\ d \in Store /\ e \in Entry /\ e = c.entries[1]
  <2>1. log \in Seq(Entry) /\ hist \in Seq(Store) /\ Len(hist) = Len(log) + 1 /\ Len(log) \in Nat
    BY DEF IInv, TypeInv
  <2> HIDE DEF c
  <2> QED
    BY <1>1, <1>2, <2>1
<1>4. w \in Store
  BY <1>3, ApplyEntry
<1>5. /\ new # Idle /\ new.op = c.op /\ new.node = c.node
      /\ new.wait = (IF c.wait = 0 THEN Len(log) + 1 ELSE c.wait)
      /\ new.todo = c.todo /\ new.inodes = c.inodes /\ new.entries = Tail(c.entries)
  BY <1>2 DEF Active, Idle, RequestOps
<1>6. RequestFits(c, d, clock)
  BY <1>1 DEF InOrder, FitInv
<1>7. leader \in Nodes /\ leader # NoLeader
  BY <1>1, <1>2, NamenodeAssumption
<1>8. rpc'[h] = new /\ \A g \in Handlers : g = h
  BY <1>1 DEF IInv, TypeInv, Serial
<1>9. TreeOK(d)
  BY <1>3 DEF InOrder, ContentInv
<1> HIDE DEF new, w, d, e
<1>10. Refreshing(new) <=> Refreshing(c)
  BY <1>5 DEF Refreshing
<1>11. DOMAIN c.inodes = {} /\ (c.todo = {} \/ Refreshing(c))
       /\ (c.op = "update_lock" /\ OnePathRefresh => \A p, q \in c.todo : p = q)
  BY <1>1, <1>6 DEF RequestFits
<1>12. \/ AggOnly(c.entries)
       \/ /\ c.wait > 0 => Refreshing(c)
          /\ EntryFits(e, c.op, d, clock)
          /\ Tail(c.entries) = << >> \/ AggOnly(Tail(c.entries))
  BY <1>1, <1>3, <1>6 DEF RequestFits
<1>13. Tail(c.entries) = << >> \/ AggOnly(Tail(c.entries))
  <2> HIDE DEF c
  <2>1. CASE AggOnly(c.entries)
    <3>1. Len(c.entries) = 1
      BY <2>1 DEF AggOnly
    <3> QED
      BY <1>2, <3>1, TailOfOne
  <2> QED
    BY <1>12, <2>1
<1>14. /\ TreeOK(w)
       /\ e.op \in {"OP_PUT", "OP_PUTBATCH"} => SameSubs(d, w)
       /\ Alike(d, w) \/ (c.wait = 0 /\ ~Refreshing(c))
  <2>1. CASE AggOnly(c.entries)
    <3>1. e.op = "OP_PUTAGG"
      BY <1>3, <2>1 DEF AggOnly
    <3> QED
      BY <1>3, <1>9, <3>1, AggEntry DEF w
  <2>2. CASE ~AggOnly(c.entries)
    <3>1. EntryFits(e, c.op, d, clock) /\ (c.wait > 0 => Refreshing(c))
      BY <1>12, <2>2
    <3>2. /\ TreeOK(w)
          /\ e.op \in {"OP_PUT", "OP_PUTBATCH"} => SameSubs(d, w)
          /\ c.op = "update_lock" => SameContent(d, w)
      BY <1>2, <1>3, <1>9, <3>1, FittingEntry DEF w
    <3>3. Refreshing(c) => Alike(d, w)
      BY <3>2 DEF Refreshing, Alike
    <3>4. c.wait = 0 \/ c.wait > 0
      BY <1>2
    <3> QED
      BY <3>1, <3>2, <3>3, <3>4
  <2> QED
    BY <2>1, <2>2
<1>15. /\ Len(log') = Len(log) + 1 /\ Len(hist') = Len(hist) + 1
       /\ hist'[Len(hist) + 1] = w /\ hist'[Len(hist)] = d /\ log'[Len(log) + 1] = e
       /\ \A i \in 1..Len(hist) : hist'[i] = hist[i]
       /\ \A i \in 1..Len(log) : log'[i] = log[i]
  BY <1>1, <1>3, <1>4 DEF d
<1>16. ExactInv'
  <2>1. \A n \in Nodes : applied[n] + 1 \in 1..Len(hist)
    BY <1>3 DEF IInv, TypeInv
  <2>2. \A n \in Nodes : up[n] /\ db[n] = hist'[applied[n] + 1]
    BY <1>15, <2>1 DEF InOrder, ExactInv
  <2> QED
    BY <1>1, <2>2 DEF ExactInv
<1>17. ContentInv'
  <2>1. \A i \in 1..Len(hist') : TreeOK(hist'[i])
    <3>1. \A i \in 1..Len(hist') : i \in 1..Len(hist) \/ i = Len(hist) + 1
      BY <1>3, <1>15
    <3>2. \A i \in 1..Len(hist) : TreeOK(hist[i])
      BY DEF InOrder, ContentInv
    <3> QED
      BY <1>14, <1>15, <3>1, <3>2
  <2>2. \A i \in 1..Len(log') : log'[i].op \in {"OP_PUT", "OP_PUTBATCH"} => SameSubs(hist'[i], hist'[i + 1])
    <3> SUFFICES ASSUME NEW i \in 1..Len(log'), log'[i].op \in {"OP_PUT", "OP_PUTBATCH"}
                 PROVE  SameSubs(hist'[i], hist'[i + 1])
      OBVIOUS
    <3>1. CASE i \in 1..Len(log)
      <4>1. i \in 1..Len(hist) /\ i + 1 \in 1..Len(hist)
        BY <1>3, <3>1
      <4>2. SameSubs(hist[i], hist[i + 1])
        BY <1>15, <3>1 DEF InOrder, ContentInv
      <4> QED
        BY <1>15, <4>1, <4>2
    <3>2. CASE i \notin 1..Len(log)
      <4>1. i = Len(log) + 1 /\ i = Len(hist) /\ i + 1 = Len(hist) + 1
        BY <1>3, <1>15, <3>2
      <4> QED
        BY <1>14, <1>15, <4>1
    <3> QED
      BY <3>1, <3>2
  <2> QED
    BY <2>1, <2>2 DEF ContentInv
<1>18. FitInv'
  <2>1. new.entries # << >> \/ new.wait > 0 => DOMAIN new.inodes = {}
    BY <1>5, <1>11
  <2>2. RequestFits(new, w, clock)
    <3> HIDE DEF c
    <3> QED
      BY <1>5, <1>10, <1>11, <1>13 DEF RequestFits
  <2>3. hist'[Len(hist')] = w
    BY <1>15
  <2> QED
    BY <1>1, <1>8, <2>2, <2>3 DEF FitInv
<1>19. LeaderInv'
  <2>1. hist' = Append(hist, w) /\ Len(hist) > 0 /\ d = hist[Len(hist)]
    BY <1>1, <1>3 DEF d
  <2>2. applied[leader] \in Nat
    BY <1>7 DEF IInv, TypeInv
  <2>3. ASSUME Pending(new, leader) PROVE Settled(new.wait, hist')
    <3>1. ~Refreshing(c)
      BY <1>10, <2>3 DEF Pending
    <3>2. CASE c.wait = 0
      <4>1. new.wait >= Len(hist) /\ new.wait \in Nat
        BY <1>3, <1>5, <3>2
      <4> QED
        BY <1>3, <1>4, <2>1, <4>1, SettledGrows
    <3>3. CASE c.wait # 0
      <4>1. Pending(c, leader) /\ new.wait = c.wait
        BY <1>1, <1>2, <1>5, <3>1, <3>3 DEF Pending
      <4>2. Settled(c.wait, hist)
        BY <1>7, <4>1 DEF InOrder, LeaderInv
      <4>3. Alike(d, w)
        BY <1>14, <3>3
      <4> QED
        BY <1>2, <1>3, <1>4, <2>1, <4>1, <4>2, <4>3, SettledGrows
    <3> QED
      BY <3>2, <3>3
  <2>4. ASSUME ~Pending(new, leader) PROVE Settled(applied[leader], hist')
    <3>1. new.wait > 0
      BY <1>2, <1>3, <1>5
    <3>2. Refreshing(c)
      BY <1>1, <1>5, <1>10, <2>4, <3>1 DEF Pending
    <3>3. Alike(d, w)
      BY <1>14, <3>2
    <3>4. \A g \in Handlers : ~Pending(rpc[g], leader)
      BY <1>8, <3>2 DEF Pending
    <3>5. Settled(applied[leader], hist)
      BY <1>7, <3>4 DEF InOrder, LeaderInv
    <3> QED
      BY <1>3, <1>4, <2>1, <2>2, <3>3, <3>5, SettledGrows
  <2> QED
    BY <1>1, <1>7, <1>8, <2>3, <2>4 DEF LeaderInv
<1> QED
  BY <1>16, <1>17, <1>18, <1>19 DEF InOrder

\* A namenode applies the next entry: it holds the next store of the history.
LEMMA OnApplyInOrder ==
  ASSUME IInv, HistoryIsLog, InOrder, NEW n \in Nodes, OnApply(n)
  PROVE  InOrder'
<1>1. /\ applied[n] < Len(log)
      /\ db' = [db EXCEPT ![n] = Writes(db[n], log[applied[n] + 1])]
      /\ applied' = [applied EXCEPT ![n] = applied[n] + 1]
      /\ UNCHANGED <<log, hist, up, leader, clock, rpc>>
  BY DEF OnApply
<1>2. /\ db \in [Nodes -> Store] /\ applied \in [Nodes -> Nat] /\ Len(log) \in Nat
      /\ Len(hist) = Len(log) + 1
  BY DEF IInv, TypeInv
<1>3. ExactInv'
  <2>1. applied[n] + 1 \in 1..Len(log)
    BY <1>1, <1>2
  <2>2. db[n] = hist[applied[n] + 1]
    BY DEF InOrder, ExactInv
  <2>3. Writes(db[n], log[applied[n] + 1]) = hist[(applied[n] + 1) + 1]
    BY <2>1, <2>2 DEF HistoryIsLog
  <2>4. \A m \in Nodes : up[m] /\ db[m] = hist[applied[m] + 1]
    BY DEF InOrder, ExactInv
  <2>5. /\ db'[n] = hist[applied'[n] + 1]
        /\ \A m \in Nodes : m # n => db'[m] = db[m] /\ applied'[m] = applied[m]
    BY <1>1, <1>2, <2>3
  <2>6. \A m \in Nodes : up[m] /\ db'[m] = hist[applied'[m] + 1]
    BY <2>4, <2>5
  <2> QED
    BY <1>1, <2>6 DEF ExactInv
<1>4. LeaderInv'
  <2>1. ASSUME leader # NoLeader, Settled(applied[leader], hist)
        PROVE  Settled(applied'[leader], hist)
    <3>1. leader \in Nodes
      BY <2>1 DEF IInv, TypeInv
    <3>2. applied[leader] \in Nat /\ applied'[leader] \in Nat /\ applied[leader] <= applied'[leader]
      BY <1>1, <1>2, <3>1
    <3>3. \A i \in (applied'[leader] + 1)..Len(hist) : i \in (applied[leader] + 1)..Len(hist)
      BY <1>2, <3>2
    <3> QED
      BY <2>1, <3>3 DEF Settled
  <2>2. LeaderInv
    BY DEF InOrder
  <2> QED
    BY <1>1, <2>1, <2>2 DEF LeaderInv
<1>5. FitInv' /\ ContentInv'
  BY <1>1 DEF InOrder, FitInv, ContentInv
<1> QED
  BY <1>3, <1>4, <1>5 DEF InOrder

\* The first election: nothing has been proposed before it.
LEMMA ElectInOrder ==
  ASSUME IInv, InOrder, NEW n \in Nodes, Elect(n)
  PROVE  InOrder'
<1>1. leader = NoLeader /\ leader' = n /\ UNCHANGED <<log, hist, db, applied, up, clock, rpc>>
  BY DEF Elect
<1>2. Len(log) = 0 /\ Len(hist) = 1 /\ hist[1] \in Store /\ applied[n] = 0 /\ n # NoLeader
  <2>1. Len(log) = 0
    BY <1>1 DEF InOrder, LeaderInv
  <2>2. hist \in Seq(Store) /\ Len(hist) = Len(log) + 1 /\ applied[n] \in Nat /\ applied[n] <= Len(log)
    BY DEF IInv, TypeInv
  <2> QED
    BY <2>1, <2>2, NamenodeAssumption
<1>3. \A h \in Handlers : ~Pending(rpc[h], n)
  <2> SUFFICES ASSUME NEW h \in Handlers, Pending(rpc[h], n) PROVE FALSE
    OBVIOUS
  <2>1. rpc[h] \in Active /\ rpc[h].wait <= 0 /\ rpc[h].wait > 0
    BY <1>2 DEF IInv, RpcInv, SlotOK, Pending
  <2>2. rpc[h].wait \in Nat
    BY <2>1 DEF Active
  <2> QED
    BY <2>1, <2>2
<1>4. Settled(0, hist)
  <2>1. \A i \in 1..Len(hist) : i = Len(hist)
    BY <1>2
  <2> QED
    BY <1>2, <2>1, AlikeEquivalence DEF Settled
<1>5. LeaderInv'
  BY <1>1, <1>2, <1>3, <1>4 DEF LeaderInv
<1>6. FitInv'
  BY <1>1 DEF InOrder, FitInv
<1>7. ExactInv' /\ ContentInv'
  BY <1>1 DEF InOrder, ExactInv, ContentInv
<1> QED
  BY <1>5, <1>6, <1>7 DEF InOrder

\* Time passes: what fitted fits later, too.
LEMMA TickInOrder ==
  ASSUME IInv, InOrder, Tick
  PROVE  InOrder'
<1>1. clock' = clock + 1 /\ UNCHANGED <<log, hist, db, applied, up, leader, rpc>>
  BY DEF Tick
<1>2. clock \in Nat /\ clock' \in Nat /\ clock <= clock' /\ hist[Len(hist)] \in Store
  BY <1>1 DEF IInv, TypeInv
<1>3. ASSUME NEW h \in Handlers, rpc[h] # Idle, RequestFits(rpc[h], hist[Len(hist)], clock)
      PROVE  RequestFits(rpc[h], hist[Len(hist)], clock')
  <2> DEFINE c == rpc[h]
             d == hist[Len(hist)]
  <2> HIDE DEF c, d
  <2>1. RequestFits(c, d, clock) /\ d \in Store
    BY <1>2, <1>3 DEF c, d
  <2>2. ASSUME NEW op, NEW p \in Paths, NEW i, Fits(op, d, p, i, clock)
        PROVE  Fits(op, d, p, i, clock')
    BY <1>2, <2>1, <2>2, FitsLater
  <2>3. c \in Active
    BY <1>3 DEF c, IInv, TypeInv
  <2>4. \A p \in DOMAIN c.inodes : Fits(c.op, d, p, c.inodes[p], clock')
    <3>1. DOMAIN c.inodes \subseteq Paths
      BY <2>3 DEF Active, InodeMaps
    <3> QED
      BY <2>1, <2>2, <3>1 DEF RequestFits
  <2>5. c.entries # << >> /\ EntryFits(c.entries[1], c.op, d, clock)
          => EntryFits(c.entries[1], c.op, d, clock')
    <3> SUFFICES ASSUME c.entries # << >>, EntryFits(c.entries[1], c.op, d, clock)
                 PROVE  EntryFits(c.entries[1], c.op, d, clock')
      OBVIOUS
    <3>1. c.entries[1] \in Entry
      BY <2>3 DEF Active
    <3>2. c.entries[1].op # "OP_PUTAGG"
      BY <2>3 DEF EntryFits, FirstOp, Active, RequestOps
    <3>3. DOMAIN c.entries[1].inodes \subseteq Paths
      BY <3>1, <3>2 DEF Entry, InodeMaps
    <3> QED
      BY <2>2, <3>3 DEF EntryFits
  <2>6. RequestFits(c, d, clock')
    BY <2>1, <2>4, <2>5 DEF RequestFits
  <2> QED
    BY <2>6 DEF c, d
<1>4. FitInv'
  BY <1>1, <1>3 DEF InOrder, FitInv
<1>5. ExactInv' /\ LeaderInv' /\ ContentInv'
  BY <1>1 DEF InOrder, ExactInv, LeaderInv, ContentInv
<1> QED
  BY <1>4, <1>5 DEF InOrder
\* A node at the store of the history does not abort while the log is healthy.
LEMMA NoAbort ==
  ASSUME IInv, InOrder, Healthy, NEW n \in Nodes
  PROVE  ~Abort(n)
<1> SUFFICES ASSUME Abort(n) PROVE FALSE
  OBVIOUS
<1>1. applied[n] < Len(log) /\ Trips(db[n], log[applied[n] + 1])
  BY DEF Abort
<1>2. applied[n] \in Nat /\ Len(log) \in Nat
  BY DEF IInv, TypeInv
<1>3. applied[n] + 1 \in 1..Len(log)
  BY <1>1, <1>2
<1>4. db[n] = hist[applied[n] + 1]
  BY DEF InOrder, ExactInv
<1> QED
  BY <1>1, <1>3, <1>4 DEF Healthy

\* A log that is healthy now has always been.
LEMMA HealthyBefore ==
  ASSUME IInv, [Next]_vars, Healthy'
  PROVE  Healthy
<1>1. CASE UNCHANGED <<log, hist>>
  BY <1>1 DEF Healthy
<1>2. ASSUME NEW h \in Handlers, Propose(h) PROVE Healthy
  <2> DEFINE e == Head(rpc[h].entries)
             s == Writes(hist[Len(hist)], e)
  <2>1. log' = Append(log, e) /\ hist' = Append(hist, s)
    BY <1>2 DEF Propose
  <2> HIDE DEF e, s
  <2>2. log \in Seq(Entry) /\ hist \in Seq(Store) /\ Len(hist) = Len(log) + 1 /\ Len(log) \in Nat
    BY DEF IInv, TypeInv
  <2>3. /\ Len(log') = Len(log) + 1
        /\ \A i \in 1..Len(log) : i \in 1..Len(log') /\ log'[i] = log[i] /\ hist'[i] = hist[i]
    BY <2>1, <2>2
  <2> QED
    BY <2>3 DEF Healthy
<1> QED
  BY <1>1, <1>2 DEF Next, Handle, Call, Prepare, PrepareThrows, ProposeFails, Respond,
                    OnApply, Abort, Crash, Gone, Restart, Elect, StepDown, Tick, vars

\* At first there is nothing.
LEMMA SerialInit == Init => SerialInv
<1> SUFFICES ASSUME Init PROVE InOrder
  BY DEF SerialInv
<1>1. /\ log = << >> /\ hist = <<EmptyDatabase>> /\ leader = NoLeader /\ Len(log) = 0 /\ Len(hist) = 1
      /\ hist[1] = EmptyDatabase
      /\ \A n \in Nodes : db[n] = EmptyDatabase /\ applied[n] = 0 /\ up[n]
      /\ \A h \in Handlers : rpc[h] = Idle
  BY DEF Init
<1>2. ExactInv
  BY <1>1 DEF ExactInv
<1>3. LeaderInv /\ FitInv
  BY <1>1 DEF LeaderInv, FitInv
<1>4. TreeOK(EmptyDatabase)
  BY DEF TreeOK, IsDir, Rec, EmptyDatabase
<1>5. ContentInv
  BY <1>1, <1>4 DEF ContentInv
<1> QED
  BY <1>2, <1>3, <1>5 DEF InOrder

\* Every step keeps requests one after the other in order.
LEMMA SerialNext ==
  ASSUME Serial
  PROVE  IInv /\ ReplicaInv /\ SerialInv /\ [Next]_vars => SerialInv'
<1> SUFFICES ASSUME IInv, ReplicaInv, SerialInv, [Next]_vars, Healthy' PROVE InOrder'
  BY DEF SerialInv
<1>1. Healthy /\ InOrder
  BY HealthyBefore DEF SerialInv
<1>2. ASSUME NEW h \in Handlers, NEW n \in Nodes, NEW r \in Requests, Call(h, n, r) PROVE InOrder'
  BY <1>1, <1>2, CallInOrder
<1>3. ASSUME NEW h \in Handlers, NEW p \in Paths, Prepare(h, p) PROVE InOrder'
  BY <1>1, <1>3, PrepareInOrder
<1>4. ASSUME NEW h \in Handlers, (\E p \in Paths : PrepareThrows(h, p)) \/ Respond(h) PROVE InOrder'
  BY <1>1, <1>4, AnswerInOrder
<1>5. ASSUME NEW h \in Handlers, Propose(h) PROVE InOrder'
  BY <1>1, <1>5, ProposeInOrder
<1>6. ASSUME NEW h \in Handlers, ProposeFails(h) PROVE InOrder'
  BY <1>1, <1>6, ProposeFailsInOrder
<1>7. ASSUME NEW n \in Nodes, OnApply(n) PROVE InOrder'
  BY <1>1, <1>7, OnApplyInOrder DEF ReplicaInv
<1>8. ASSUME NEW n \in Nodes PROVE ~Abort(n) /\ ~Crash(n) /\ ~Restart(n)
  <2>1. ~(faults < MaxFaults)
    BY DEF Serial, IInv, TypeInv
  <2>2. up[n]
    BY <1>1 DEF InOrder, ExactInv
  <2> QED
    BY <1>1, <2>1, <2>2, NoAbort DEF Crash, Restart
<1>9. ASSUME NEW n \in Nodes, Elect(n) PROVE InOrder'
  BY <1>1, <1>9, ElectInOrder
<1>10. CASE StepDown
  <2>1. ~(faults < MaxFaults)
    BY DEF Serial, IInv, TypeInv
  <2> QED
    BY <1>10, <2>1 DEF StepDown
<1>11. CASE Tick
  BY <1>1, <1>11, TickInOrder
<1>12. CASE UNCHANGED vars
  BY <1>1, <1>12 DEF vars, InOrder, ExactInv, LeaderInv, FitInv, ContentInv
<1> QED
  BY <1>2, <1>3, <1>4, <1>5, <1>6, <1>7, <1>8, <1>9, <1>10, <1>11, <1>12 DEF Next, Handle

\* The invariant of requests one after the other.
LEMMA SerialInvariance ==
  ASSUME Serial
  PROVE  Spec => [](IInv /\ ReplicaInv /\ SerialInv)
<1>1. IInv /\ ReplicaInv /\ SerialInv /\ [Next]_vars => SerialInv'
  BY SerialNext
<1> QED
  BY <1>1, SerialInit, ReplicaInit, ReplicaNext, Invariance, PTL DEF Spec
\* The directories of every store are in order.
LEMMA InOrderTree == IInv /\ SerialInv => ListedChildMatches
<1> SUFFICES ASSUME IInv, InOrder, NEW n \in Nodes, NEW q \in Paths, NEW p \in Paths, NEW k \in BOOLEAN,
                    db[n].inodes[q] # NotFound, db[n].inodes[q].valid,
                    db[n].inodes[q].is_directory, db[n].inodes[q].sub[Dentry(p, k)] > 0
             PROVE  /\ db[n].inodes[p] # NotFound
                    /\ db[n].inodes[p].valid
                    /\ db[n].inodes[p].is_directory = k
  BY DEF SerialInv, ListedChildMatches
<1>1. applied[n] + 1 \in 1..Len(hist)
  BY DEF IInv, TypeInv
<1>2. TreeOK(db[n])
  BY <1>1 DEF InOrder, ExactInv, ContentInv
<1>3. IsDir(db[n], q)
  BY DEF IsDir, Rec
<1>4. IsOfKind(db[n], p, k)
  BY <1>2, <1>3 DEF TreeOK
<1> QED
  BY <1>4 DEF IsOfKind, Rec

\* Requests one after the other: whatever a directory of a namenode's store
\* lists exists and is of the listed kind, for every lag of the replicas and
\* every moment of the election (rocksdb.cpp prepares against the leader's
\* local store, on_apply of raft_nn.cpp checks nothing again).
THEOREM ListingsMatch ==
  ASSUME Serial
  PROVE  Spec => []ListedChildMatches
  BY SerialInvariance, InOrderTree, PTL

\* The log's lock entries keep the subs.
LEMMA InOrderContent == SerialInv => LockOpsKeepContent
  BY DEF SerialInv, InOrder, ContentInv, SameSubs, LockOpsKeepContent

\* Requests one after the other: taking or refreshing a lock, which writes back
\* the whole inode read by the handler, loses no block of a file and no entry of
\* a directory, also where a refresh of several paths is answered before all
\* its entries are applied (prepare_put of rocksdb.cpp, update_lock of
\* namenode.cpp).
THEOREM LocksKeepContent ==
  ASSUME Serial
  PROVE  Spec => []LockOpsKeepContent
  BY SerialInvariance, InOrderContent, PTL

\* A handler of put or put_batch proposes nothing but its own entry.
PutsOnly ==
  \A h \in Handlers : rpc[h] # Idle /\ rpc[h].op \in {"put", "put_batch"} =>
    \A i \in 1..Len(rpc[h].entries) : rpc[h].entries[i].op # "OP_PUTAGG"

\* Every step keeps that, with overlapping requests and faults, too.
LEMMA PutsOnlyNext == IInv /\ PutsOnly /\ [Next]_vars => PutsOnly'
<1> SUFFICES ASSUME IInv, PutsOnly, [Next]_vars PROVE PutsOnly'
  OBVIOUS
<1> DEFINE Puts(c) == c # Idle /\ c.op \in {"put", "put_batch"} =>
                        \A i \in 1..Len(c.entries) : c.entries[i].op # "OP_PUTAGG"
<1>1. PutsOnly <=> \A h \in Handlers : Puts(rpc[h])
  BY DEF PutsOnly
<1>2. PutsOnly' <=> \A h \in Handlers : Puts(rpc'[h])
  BY DEF PutsOnly
<1>3. Puts(Idle)
  OBVIOUS
<1>4. ASSUME NEW h \in Handlers, NEW c, rpc' = [rpc EXCEPT ![h] = c], Puts(c) PROVE PutsOnly'
  <2>1. rpc \in [Handlers -> Active \cup {Idle}]
    BY DEF IInv, TypeInv
  <2> HIDE DEF Puts
  <2> QED
    BY <1>1, <1>2, <1>4, <2>1
<1>5. ASSUME NEW h \in Handlers, NEW n \in Nodes, NEW r \in Requests, Call(h, n, r) PROVE PutsOnly'
  <2>1. PICK id : rpc' = [rpc EXCEPT ![h] = Busy(r, n, id)]
    BY <1>5 DEF Call
  <2>2. Puts(Busy(r, n, id))
    BY DEF Busy
  <2> HIDE DEF Puts
  <2> QED
    BY <1>4, <2>1, <2>2
<1>6. ASSUME NEW h \in Handlers, NEW p \in Paths, Prepare(h, p) PROVE PutsOnly'
  <2> DEFINE c == rpc[h]
             now == [q \in DOMAIN c.inodes \cup {p} |-> IF q = p THEN Prepared(c, p) ELSE c.inodes[q]]
             ready == c.op = "update_lock" \/ c.todo = {p}
             new == [c EXCEPT !.todo = @ \ {p},
                              !.inodes = IF ready THEN << >> ELSE now,
                              !.entries = IF ready THEN Proposals(c.op, now, c.id) ELSE @]
  <2>1. c # Idle /\ c.entries = << >> /\ rpc' = [rpc EXCEPT ![h] = new]
    BY <1>6 DEF Prepare
  <2>2. c \in Active
    BY <2>1 DEF IInv, TypeInv
  <2> HIDE DEF now, ready
  <2>3. new.op = c.op /\ new.entries = IF ready THEN Proposals(c.op, now, c.id) ELSE << >>
    BY <2>1, <2>2 DEF Active
  <2>4. c.op = "put" => Proposals(c.op, now, c.id) = <<[op |-> "OP_PUT", inodes |-> now]>>
    BY DEF Proposals
  <2>5. c.op = "put_batch" => Proposals(c.op, now, c.id) = <<[op |-> "OP_PUTBATCH", inodes |-> now]>>
    BY DEF Proposals
  <2> HIDE DEF new, c
  <2>6. Puts(new)
    BY <2>3, <2>4, <2>5
  <2> HIDE DEF Puts
  <2> QED
    BY <1>4, <2>1, <2>6
<1>7. ASSUME NEW h \in Handlers, Propose(h) \/ ProposeFails(h) PROVE PutsOnly'
  <2> DEFINE c == rpc[h]
  <2>1. PICK new : /\ rpc' = [rpc EXCEPT ![h] = new] /\ new.op = c.op
                   /\ new.entries = Tail(c.entries) /\ c # Idle /\ c.entries # << >>
    <3>1. c \in Active
      BY <1>7 DEF Propose, ProposeFails, IInv, TypeInv
    <3>2. CASE Propose(h)
      <4> DEFINE w == [c EXCEPT !.entries = Tail(@), !.wait = IF @ = 0 THEN Len(log) + 1 ELSE @]
      <4>1. rpc' = [rpc EXCEPT ![h] = w] /\ c # Idle /\ c.entries # << >>
        BY <3>2 DEF Propose
      <4>2. w.op = c.op /\ w.entries = Tail(c.entries)
        BY <3>1 DEF Active
      <4> QED
        BY <4>1, <4>2
    <3>3. CASE ProposeFails(h)
      <4> DEFINE w == [c EXCEPT !.entries = Tail(@)]
      <4>1. rpc' = [rpc EXCEPT ![h] = w] /\ c # Idle /\ c.entries # << >>
        BY <3>3 DEF ProposeFails
      <4>2. w.op = c.op /\ w.entries = Tail(c.entries)
        BY <3>1 DEF Active
      <4> QED
        BY <4>1, <4>2
    <3> QED
      BY <1>7, <3>2, <3>3
  <2>2. c.entries \in Seq(Entry)
    BY <2>1 DEF IInv, TypeInv, Active
  <2>3. Puts(c)
    BY <1>1
  <2> HIDE DEF c
  <2>4. Puts(new)
    <3>1. \A i \in 1..Len(Tail(c.entries)) : i + 1 \in 1..Len(c.entries) /\ Tail(c.entries)[i] = c.entries[i + 1]
      BY <2>1, <2>2
    <3> QED
      BY <2>1, <2>3, <3>1
  <2> HIDE DEF Puts
  <2> QED
    BY <1>4, <2>1, <2>4
<1>8. ASSUME NEW h \in Handlers, (\E p \in Paths : PrepareThrows(h, p)) \/ Respond(h) PROVE PutsOnly'
  <2> HIDE DEF Puts
  <2> QED
    BY <1>3, <1>4, <1>8 DEF PrepareThrows, Respond
<1>9. ASSUME NEW n \in Nodes, Abort(n) \/ Crash(n) PROVE PutsOnly'
  <2> HIDE DEF Puts
  <2> QED
    BY <1>1, <1>2, <1>3, <1>9 DEF Abort, Crash, Gone
<1>10. CASE rpc' = rpc
  BY <1>10 DEF PutsOnly
<1> QED
  BY <1>5, <1>6, <1>7, <1>8, <1>9, <1>10
  DEF Next, Handle, OnApply, Restart, Elect, StepDown, Tick, vars

\* The inodes of a put that is proposed are not locked in the newest store.
LEMMA InOrderGrant ==
  ASSUME OnePathRefresh, IInv, PutsOnly, SerialInv, NEW h \in Handlers, Healthy, Propose(h),
         rpc[h].op \in {"put", "put_batch"}, NEW p \in DOMAIN Head(rpc[h].entries).inodes
  PROVE  ~LockConflict(get_inode(hist[Len(hist)], p), clock)
<1> DEFINE c == rpc[h]
           d == hist[Len(hist)]
<1>1. c # Idle /\ c.entries # << >> /\ leader = c.node
  BY DEF Propose
<1>2. c \in Active /\ c.entries \in Seq(Entry)
  BY <1>1 DEF IInv, TypeInv, Active
<1>3. RequestFits(c, d, clock)
  BY <1>1 DEF SerialInv, InOrder, FitInv
<1>4. \A i \in 1..Len(c.entries) : c.entries[i].op # "OP_PUTAGG"
  BY <1>1 DEF PutsOnly
<1>5. d \in Store /\ clock \in Nat
  BY DEF IInv, TypeInv
<1> HIDE DEF c, d
<1>6. Head(c.entries) = c.entries[1] /\ 1 \in 1..Len(c.entries) /\ c.entries[1] \in Entry
  BY <1>1, <1>2
<1>7. EntryFits(c.entries[1], c.op, d, clock)
  BY <1>1, <1>3, <1>4, <1>6 DEF RequestFits, AggOnly
<1>8. Fits(c.op, d, p, c.entries[1].inodes[p], clock)
  BY <1>6, <1>7 DEF EntryFits, c
<1>9. get_inode(d, p).ddl_lock < clock
  BY <1>8 DEF Fits, c
<1>10. p \in Paths
  <2>1. p \in DOMAIN c.entries[1].inodes /\ c.entries[1].op # "OP_PUTAGG"
    BY <1>4, <1>6 DEF c
  <2> QED
    BY <1>6, <2>1 DEF Entry, InodeMaps
<1>11. get_inode(d, p).ddl_lock \in Nat
  BY <1>5, <1>10, Reads DEF CleanInode
<1> QED
  BY <1>5, <1>9, <1>11 DEF LockConflict, d

\* Requests one after the other, each refresh for one path: a put is proposed
\* only while nobody holds an unexpired lock on the path, although its handler
\* read the deadline from a store that may have been behind the log (Inode::lock
\* throws "file is being edit!").
THEOREM GrantsExclude ==
  ASSUME Serial, OnePathRefresh
  PROVE  Spec => GrantRespectsLock
<1>1. Init => PutsOnly
  BY DEF Init, PutsOnly
<1>2. IInv /\ PutsOnly /\ SerialInv /\ [Next]_vars =>
        [\A h \in Handlers :
           Healthy /\ Propose(h) /\ rpc[h].op \in {"put", "put_batch"} =>
             \A p \in DOMAIN Head(rpc[h].entries).inodes :
               ~LockConflict(get_inode(hist[Len(hist)], p), clock)]_vars
  BY InOrderGrant
<1> QED
  BY <1>1, <1>2, SerialInvariance, PutsOnlyNext, PTL DEF Spec, GrantRespectsLock
=============================================================================
