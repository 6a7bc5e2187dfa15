----------------------------- MODULE Namespace -----------------------------
(***************************************************************************)
(* The metadata store of a namenode: the Inode record (inode.h, inode.cpp), *)
(* and what the operations of class RocksDB (node/rocksdb.cpp) read and    *)
(* write.  Everything here is a pure operator; who calls it, and in        *)
(* which order, is the business of module Namenode.                        *)
(*                                                                         *)
(* A key of the store is a simplified path; Parent is get_parent_path, and *)
(* the parent of "/" is "/".  A value is an Inode.  The vector Inode::sub  *)
(* holds directory entries for a directory and one string per data block   *)
(* for a file, in one and the same field; it is kept as the number of      *)
(* times each string occurs, so a duplicate is visible and the order is    *)
(* not.  filesize and storage_type_ptr travel with sub and are left out.   *)
(***************************************************************************)
EXTENDS Naturals

CONSTANTS
  Paths,                  \* simplified absolute paths, "/" among them
  Root,                   \* "/"
  Parent,                 \* get_parent_path
  Blocks,                 \* strings that describe a data block of a file
  AggIds,                 \* ids of aggregate files (SnowflakeIDGenerator)
  NoAgg,                  \* the empty agg_inode_id
  NotFound,               \* Status::IsNotFound()
  LOCK_REFRESH_INTERVAL   \* how long a lock lasts without a refresh

\* The string that stands for path p in its parent's sub: the last component
\* of the path, followed by "/" for a directory.
Dentry(p, is_directory) == <<p, is_directory>>

Items == (Paths \X BOOLEAN) \cup Blocks

Sub == [Items -> Nat]

Inode == [is_directory : BOOLEAN,
          valid        : BOOLEAN,
          ddl_lock     : Nat,
          sub          : Sub,
          agg_inode_id : AggIds \cup {NoAgg}]

AggInode == [files : SUBSET Paths, valid : SUBSET Paths]

Database == [inodes : [Paths -> Inode \cup {NotFound}],
             aggs   : [AggIds -> AggInode \cup {NotFound}]]

\* Inodes as they are shipped in a log entry: one per path.
IsInodeMap(f) == /\ DOMAIN f \subseteq Paths
                 /\ f \in [DOMAIN f -> Inode]

ASSUME NamespaceAssumption ==
  /\ Root \in Paths
  /\ Parent \in [Paths -> Paths]
  /\ Parent[Root] = Root
  /\ \A p \in Paths \ {Root} : Parent[p] # p
  /\ Blocks \cap (Paths \X BOOLEAN) = {}
  /\ NoAgg \notin AggIds
  /\ NotFound \notin Inode
  /\ NotFound \notin AggInode
  /\ LOCK_REFRESH_INTERVAL \in Nat \ {0}

-----------------------------------------------------------------------------
(* Inode                                                                   *)

NoSub == [x \in Items |-> 0]

\* A freshly constructed Inode whose valid flag has been set.
NewInode(valid) == [is_directory |-> FALSE, valid |-> valid, ddl_lock |-> 0,
                    sub |-> NoSub, agg_inode_id |-> NoAgg]

get_default_dir == [is_directory |-> TRUE, valid |-> TRUE, ddl_lock |-> 0,
                    sub |-> NoSub, agg_inode_id |-> NoAgg]

filename(p, inode) == Dentry(p, inode.is_directory)

LockConflict(inode, now) == inode.ddl_lock >= now

update_ddl_lock(inode, now) ==
  [inode EXCEPT !.ddl_lock = now + LOCK_REFRESH_INTERVAL]

unlock(inode) == [inode EXCEPT !.ddl_lock = 0]

\* Mutant: push_back without the find().
AddDentryNoFind(dir, x) == [dir EXCEPT !.sub[x] = @ + 1]

\* The find()-then-push_back of a directory entry.
AddDentry(dir, x) ==
  IF dir.sub[x] = 0 THEN [dir EXCEPT !.sub[x] = 1] ELSE dir

\* Mutant: only the plain name is erased.
EraseDentryFileOnly(dir, p) == [dir EXCEPT !.sub[Dentry(p, FALSE)] = 0]

\* The two erase(remove(...)) of a name, with and without "/".
EraseDentry(dir, p) ==
  [dir EXCEPT !.sub = [x \in Items |->
     IF x \in {Dentry(p, FALSE), Dentry(p, TRUE)} THEN 0 ELSE dir.sub[x]]]

\* The sub of a file that consists of the given blocks.
FileSub(blocks) == [x \in Items |-> IF x \in blocks THEN 1 ELSE 0]

-----------------------------------------------------------------------------
(* RocksDB: reads.                                                         *)

EmptyDatabase == [inodes |-> [p \in Paths |-> NotFound],
                  aggs   |-> [id \in AggIds |-> NotFound]]

\* "/" exists whatever the store says.
path_exists(d, p) ==
  \/ p = Root
  \/ d.inodes[p] # NotFound /\ d.inodes[p].valid

get_inode(d, p) ==
  IF d.inodes[p] # NotFound THEN d.inodes[p]
  ELSE IF p = Root THEN get_default_dir ELSE NewInode(FALSE)

\* Outside "/" a missing parent record is an assertion failure (see Trips).
get_parent_inode(d, p) ==
  IF d.inodes[Parent[p]] # NotFound THEN d.inodes[Parent[p]]
  ELSE get_default_dir

\* assert(inode.parent_path() == "/") in get_parent_inode fails for path p.
ParentMissing(d, p) == /\ d.inodes[Parent[p]] = NotFound
                       /\ Parent[p] # Root

-----------------------------------------------------------------------------
(* RocksDB: the prepare step of a request, made on the leader before the   *)
(* request is proposed.  CanX is the negation of "X throws".               *)

CanLs(d, p) == get_inode(d, p).valid

\* Mutant: mkdir does not look at the parent.
ParentExistsUnchecked(d, p) == TRUE

\* try_to_add: mkdir looks at the parent first and at the path afterwards.
ParentExists(d, p) == path_exists(d, Parent[p])
CanMkdir(d, p) == ~path_exists(d, p)

\* Mutant: put takes the lock whoever holds it.
CanPutNoLock(d, p, now) ==
  LET inode == get_inode(d, p) IN ~(inode.valid /\ inode.is_directory)

CanPut(d, p, now) ==
  LET inode == get_inode(d, p)
  IN  /\ ~(inode.valid /\ inode.is_directory)
      /\ ~LockConflict(inode, now)

\* Mutant: put starts from a new inode instead of the stored one.
prepare_put_fresh(d, p, now) == update_ddl_lock(NewInode(TRUE), now)

prepare_put(d, p, now) ==
  update_ddl_lock([get_inode(d, p) EXCEPT !.is_directory = FALSE,
                                          !.valid = TRUE], now)

CanPutOk(d, p) == LET inode == get_inode(d, p)
                  IN  inode.valid /\ ~inode.is_directory

prepare_put_ok(d, p, blocks) == [get_inode(d, p) EXCEPT !.sub = FileSub(blocks)]

CanRm(d, p) == path_exists(d, p)
prepare_rm  == NewInode(FALSE)

-----------------------------------------------------------------------------
(* RocksDB: the internal step, made by every replica when the log entry is *)
(* applied.  Each is one WriteBatch; where a batch puts one key twice the  *)
(* later put wins, as in the EXCEPTs below.                                *)

\* Mutant: the batch lacks the put of the new directory.
internal_mkdir_no_record(d, p, inode) ==
  [d EXCEPT !.inodes[Parent[p]] =
                AddDentry(get_parent_inode(d, p), filename(p, inode))]

internal_mkdir(d, p, inode) ==
  [d EXCEPT !.inodes[Parent[p]] =
                AddDentry(get_parent_inode(d, p), filename(p, inode)),
            !.inodes[p] = inode]

\* agg_rm reads the inode of the empty path, finds nothing, and so neither
\* looks for the aggregate file nor changes it.
agg_rm(d, p) == d

internal_rm(d, p, inode) ==
  [agg_rm(d, p) EXCEPT
     !.inodes[Parent[p]] = EraseDentry(get_parent_inode(d, p), p),
     !.inodes[p] = inode]

internal_put(d, p, inode) == [d EXCEPT !.inodes[p] = inode]

internal_put_batch(d, batch) ==
  [d EXCEPT !.inodes = [p \in Paths |->
     IF p \in DOMAIN batch THEN batch[p] ELSE d.inodes[p]]]

\* The record a put_ok leaves at p: the stored one, with the proposed blocks
\* and without the lock.
PutOkRecord(d, p, inode) == [unlock(get_inode(d, p)) EXCEPT !.sub = inode.sub]

internal_put_ok(d, p, inode) ==
  [d EXCEPT !.inodes[Parent[p]] =
                AddDentry(get_parent_inode(d, p), filename(p, inode)),
            !.inodes[p] = PutOkRecord(d, p, inode)]

\* Every parent is read once, gets the entries of all its files, and is put
\* after the files.
internal_put_ok_batch(d, batch) ==
  LET parents == {Parent[p] : p \in DOMAIN batch}
      added(q) == {filename(p, batch[p]) : p \in {f \in DOMAIN batch : Parent[f] = q}}
      base(q) == IF d.inodes[q] # NotFound THEN d.inodes[q] ELSE get_default_dir
      dir(q) == [base(q) EXCEPT !.sub = [x \in Items |->
                   IF x \in added(q) /\ base(q).sub[x] = 0 THEN 1 ELSE base(q).sub[x]]]
      file(p) == LET id == batch[p].agg_inode_id
                     rec == PutOkRecord(d, p, batch[p])
                 IN  IF id = NoAgg THEN rec ELSE [rec EXCEPT !.agg_inode_id = id]
  IN  [d EXCEPT !.inodes = [p \in Paths |->
         IF p \in parents THEN dir(p)
         ELSE IF p \in DOMAIN batch THEN file(p)
         ELSE d.inodes[p]]]

internal_put_agg(d, id, files) ==
  [d EXCEPT !.aggs[id] = [files |-> files, valid |-> files]]
=============================================================================
