# TLA+ verification of thesis_dfs

thesis_dfs (namespace `spkdfs`) is a small distributed file system in C++: a
replicated namenode that keeps the metadata, datanodes that keep erasure-coded
or replicated shards, and a client SDK with a local upload daemon and a FUSE
front end. This directory holds TLA+ models of its core, the TLC runs that
check them, and TLAPS proofs of their safety properties. `PROJECT.json` maps every
definition to the lines it models; paths there start at the repository's root
(`src/src/node/...`, `src/include/...`).

## 1. Inventory

| component | state | operations | hard because |
|---|---|---|---|
| namenode store (`node/rocksdb.cpp`, `common/inode.cpp`, `agg_inode.h`) | RocksDB: path → inode, id → aggregate inode | `try_to_add/rm`, `prepare_*`, `internal_*` | listing and record are two keys; checks and writes happen at different times |
| namenode service, raft state machine (`node/namenode.cpp`, `raft_nn.cpp`) | raft log, store, requests under way | mkdir, rm, put, put_batch, put_ok, put_ok_batch, update_lock; `on_apply`; snapshots | stale checks, a lagging leader, replay after a restart over a store that survived |
| choice of the namenodes (`node/raft_dn.cpp`, `server.cpp`, `common/node.cpp`) | namenode_list, nn_timer, each machine's namenode and its peers | `on_leader_start`, `on_nodes_loss`, `on_apply`, `on_namenodes_change`, snapshots | scans that are old when used, timers that are left running, restarts |
| daemon upload and download (`client/daemon_upload*.cpp`, `daemon_download.cpp`) | two queues with maps, task status, `_stop`; downloads under way | put, fsync, rm, get, stop; big-file, small-file and timer threads, copying threads | four actors on the same queues, condition variables, shutdown; two lookups that a task may slip between |
| shard upload and download (`client/sdk.cpp`, `common/data_retrive.hpp`, `storage_type.cpp`) | node_index, succ, fail_count, nodes_hashs | `encode_one_block`, `datanode_put`, `decode_one_block`, `get` | retries, counters reset at boundaries, asynchronous streams |
| datanode (`node/datanode.cpp`, `common/stream.cpp`) | shard files | put, get | answers before it has the data; broken streams |
| SDK files and FUSE (`client/sdk.cpp`, `common/pathlocks.cpp`, `client/fuse.cpp`) | cached inodes and blocks, links of written blocks, path locks, remoteLocks | open, read, write, truncate, fsync, close, refresh timer | several threads on one path, caches kept over sessions, a lagging slave namenode, exceptions between two locks |
| hash table (`common/extendible_hash_table.hpp`) | directory, buckets, depths, latch | Insert, Find, Remove | splits of buckets that several entries share |
| interval timer, connection pool, command line | | | see `components` in PROJECT.json |

Interaction: clients (SDK, daemon) call the namenode leader by RPC and the
datanodes by RPC plus stream; namenode handlers propose to the raft group
`RaftNN`, whose log every namenode applies to its own RocksDB; all machines form
the raft group `RaftDN`, whose log decides which of them run a namenode. braft,
brpc, RocksDB, liberasurecode and the clocks are external.

What makes the parts correct: replicas that have applied the same log are equal,
also after replays; listings agree with records; locks exclude writers and never
change content; the namenode group is rebuilt after losses without giving up the
metadata; an accepted upload is done exactly once, can be downloaded meanwhile, and
a removed file stays removed; a writer is alone with its file, its lock is
refreshed and what it wrote is saved; what is read is what was written or nothing, and the promised number of
lost datanodes is survived. `hazards` in PROJECT.json lists where each of these is
at risk.

## 2. Modules

`Namespace` — the store as a pure data type. A path is an element of `Paths`,
`Parent` gives the tree; a path string is never taken apart. An inode has the
five fields the control depends on. `sub` is a vector of strings in the code; here
it counts how often each item (an entry with its kind, or a block) occurs, so that
duplicates remain visible. `filename` (a trailing "/" marks a directory) becomes
the pair of path and kind. `NotFound` is an absent key.

`Namenode` — extends it with the raft log, one store per namenode, handlers and
faults. A handler is three kinds of steps: `Call` (check_leader, and mkdir's first
read), `Prepare` per path (a read of the local store plus the check; or
`PrepareThrows`), and `Propose` per log entry; `Respond` ends it. Everything else
may happen between these steps. `OnApply` applies one entry; `Abort` is the failed
assertion of `get_parent_inode` (all CMake presets build Debug, so it is active).
`Restart` keeps the store and starts again at the beginning of the log. The
history variable `hist[i+1]` is the store after applying the first i entries once,
in order. A leader is any namenode that is up; it may lag behind, and a namenode
that sees no leader takes itself for it, as `RaftNN::leader` does.

`NamenodeSnapshot` — extends `Namenode` with snapshots. `on_snapshot_save` makes a
backup of the store; braft notes the index in a later step (`SnapshotDone`); a crash
may come between the two (`Lose`). `on_snapshot_load` replaces the store by the
newest backup, whichever snapshot it was made for, and the log is applied from the
index of the last snapshot that counts. Starts without a snapshot, handlers and
everything else are `Namenode`'s actions.

`NamenodeElection` — the datanode group's log of namenode lists. `on_leader_start`
(and `on_nodes_loss` on a timer) scans and chooses a list in one step and proposes
it in another one, so that it may be old; `on_apply` takes several entries at a
time and keeps the last, as the code does; the leader's old timer is left running
(`leaked`). A timer, one left behind too, may fire as soon as a list is applied, while
other machines have yet to apply it and to start their namenodes (`Lagging`);
`MaxHasty` bounds how often. A snapshot restores namenode_list but starts no namenode.

`DaemonUpload` — the daemon: `Upload`, `FsyncTake`/`FsyncPush`, `RmStart` …
`RmRemote`, `Download`/`DownloadAskSmall`, `Stop` for the service, and each thread as its own
sequence of steps split where another thread can see or change shared state
(mutex taken, condition variable waited on, queue popped, each namenode call of
`SDK::put` and `SDK::putAggFile`). The namenode is reduced to existence and lock of
a remote path. Any remote call of an upload may fail (`CallFails`): `namenode_put` and
`namenode_putok` of a big file swallow the failure and go on, so that the path is
missing later or the task becomes FINISHED without being stored; all other calls throw
(`AggCallThrows`). An exception that leaves a thread ends the process (`dead`). The
history variable `failed` keeps the tasks whose calls failed, of which there are at most
`MaxFailed`. A download asks the big queue and then the small one, each under its own mutex, and
is handed to the thread that copies or to the one that fetches
(`thread_file_download`).

`ShardUpload` — the loops of `encode_one_block` (`PerBlock = TRUE`) and
`datanode_put` (`FALSE`), the shards in flight (`streams`), what is on the disks
("none", "part", "full"), and the loop of `decode_one_block`. The codes are
external: any `getDecodeBlocks` intact shards give the block back.

`SDKFiles` — one path opened by several threads of a client. `rw` is the path's
`std::shared_mutex` as glibc implements it (unlock and unlock_shared are one call
that looks at the caller, so that the kind `PathLocks` remembers has no effect);
`remoteLocks`, `inode` (the entry of local_inode_cache), `cached` (the block files)
and `linked` (the directory "write") are the SDK's state. open is `Open`,
`ReadLock` or `WriteLock`, `LockRemote`, `Register`, `UpdateInode`, `StoreInode`;
close is `Save`, `PutOk`, `Erase`, `UnlockRemote`,
`UnlockPath`; fsync is `Save` and `PutOk`; a read that misses the cache is
`ReadBegin`, `BlockLock`, `ReadFill`. The refresh of the timer's thread is
`RefreshBegin`, `RefreshPaths`, `RefreshCall`. A block is the sequence of pieces
written into it, and an entry of an inode is the block itself. The master namenode
takes locks and saves, or refuses a call at any time, as a namenode does that does not
lead; the slave, which lags, answers open; another client may save or remove the file.
A refused put_ok finds the links removed already (`refused`) and, in close, leaves the
locks (`kept`). libfuse may call release on any thread, and `UnlockPath` of a close is
taken by any of them: a writer's lock that another thread releases stays (`kept`). A
MessageException is handled as fuse.cpp does (`Caught`);
any other exception makes fuse.cpp replace the SDK, and there the model ends
(`Reinit`, `dead`). `SDKTruncate` adds truncate and O_TRUNC, whose extra unlocks
break what the properties of SDKFiles say.

`ExtendibleHashTable` — the table with its directory of pointers, one action per
public function and one per round of Insert's loop (`Split`). `KeyValueMap` is the
abstract specification: a call takes effect on a plain map in one step. The
refinement mapping takes as the map's value of a key what the bucket holds that
the directory leads to.

`UploadPool` — the abstract specification of the upload daemon: accepted tasks wait in
a pool, an uploader takes a batch, stores it and is done with it. The mapping takes as
waiting the tasks under way that no thread has, be they in a queue or in fsync's hands.

The modules `...Proofs` hold the theorems about the module they are named after
(section 5); `NamenodeReplicaProofs` those about replays of the
namenode's log and about requests one after the other.

The modules `MC...` give the constants their values. Definitions commented "Mutant" are deliberate errors;
each property of a passing run is violated when one of them takes the place of
the definition it follows.

## 3. Runs

Passing:

| run | checks | instance and bounds |
|---|---|---|
| namenode_replicas | TypeOK, CaughtUpReplicasAgree, NoDuplicateDentry, DentryHasRecord, MkdirNeverTrips | 2 namenodes, 1 handler, tree `/`>`a`>`f`, 3 requests of every kind, 2 faults: a replay cut off by a second crash, a leader that lags |
| namenode_serial | ListedChildMatches, LockOpsKeepContent, GrantRespectsLock | 1 handler, 4 requests, time 1..3 with a lock of 1: taken, held, expired |
| namenode_snapshot | SnapshotTypeOK, CrashRecoverable, EveryRequestAnswered, ReplicasConverge | 2 namenodes, 2 requests (also a file below a missing directory), 2 faults, 2 snapshots: a second backup that its snapshot never gets to use; fair |
| election_recover | TypeOK, ListsAreSized, NamenodeMatchesList, NamenodesRecover | 3 machines, 2 namenodes, 1 fault, 1 snapshot, 1 hasty timer, fair; the log bound of 6 is not reached (with 2 faults it would be) |
| daemon_queues | TypeOK, TaskInOnePlace, RemovedStaysRemoved, UploadsDoNotClash, DownloadsFindUploads, ImplementsPool, UploadsComplete | 2 small files, each enough for an aggregate, rm and get of one of them, fsync (which makes a big file of a small one), stop, one task whose calls may fail (`MaxFailed` 1); fair |
| shard_rounds | TypeOK, ToleratesFaults, GivesUpWhenAllFail, CompleteUnlessGivenUp, UploadEnds | RS<2,1>, 3 datanodes, 2 blocks, 2 faults: a block needs two rounds when a datanode is down, and one loss more than the code tolerates; two faults do not make all datanodes fail, so GivesUpWhenAllFail excludes mistaken give-ups here and the theorem `GivesUp` covers the rest; fair |
| sdk_sessions | TypeOK, SessionsExclude, WritersAreRefreshed, FirstSaveIsComplete, CachedBlocksCurrent, ClosedFileIsFree, OpensReturn | 2 threads, 2 opens, 2 writes (own or of another client), a file of 1 block that grows to 2, 1 run of the timer with its retries, calls refused at any time, closes on either thread, removal of the file, a slave that lags; fair |
| hash_table | TypeOK, EntriesShareByDepth, PairsWhereLookedFor, ImplementsMap, CallsReturn | 6 keys with 3 bits of hash, of which up to 3 agree in the lowest two bits, buckets of 2, any number of calls: up to three splits in one Insert; fair |

The namenode's properties relate two paths (a directory and a child) and two
copies of a store, which the tree of three paths and two replicas give; each race
needs at most two requests under way and one before them, and for the properties
that are proved the number of handlers is of no concern. The election needs three
machines for a majority that survives one loss. Giving up a block by mistake needs
fewer datanodes than shards. The properties of SDKFiles relate one session to the one
beside it or before it, which two threads give. namenode_replicas is reduced by the
symmetry of the namenodes, which the model treats alike; the machines of the
election are not symmetric, since datanode_list has an order.

The deadlock check is on for hash_table, which always takes another call. The other
runs switch it off: requests, opens, faults and time are bounded, so every instance
comes to rest.

What the properties of SDKFiles except, and why: `CachedBlocksCurrent` does not speak
of histories in which another client saved the file, an open got an old inode from
the slave or a session saved twice (`outdated`), and `FirstSaveIsComplete` not of a
later save. In those the code does serve or save old blocks: close erases the cached
inode, so that the next open cannot tell which cached blocks have changed
(`sdk.cpp:291`), and fsync does not renew it, so that the next fsync sends the old
entries again (`sdk.cpp:794`). Nor does it speak of histories in which a put_ok was
refused (`refused`): fsync removes the links before the call (`sdk.cpp:806`), so that
nothing sends the blocks again, and close releases the lock over unsaved data.
`ClosedFileIsFree` and `OpensReturn` except a lock that a close left held (`kept`): fsync
throws inside close before the locks are released (`sdk.cpp:289`), or the release of a
writer's file runs on another thread (`fuse.cpp:381`). `OpensReturn` claims that an open
waits only while another thread has the file open; that this thread closes it is up to
the programs that use the file system.

The properties of DaemonUpload except failed calls in the same way (`failed`):
`UploadsDoNotClash` says that only they or an rm end the daemon, `UploadsComplete` that
a task whose calls succeed is stored.

Runs that show a disagreement between the code and what it says of itself (one
property each; `findings` quotes the lines):

| run | what it shows |
|---|---|
| namenode_assert | put and put_ok below a missing directory pass the checks and make every replica fail `assert(inode.parent_path() == "/")` |
| namenode_lock_refresh | a lock refresh overlapping a put_ok writes the old inode back |
| daemon_cancel | files of an aggregate carry no task, so CANCELED is ignored |
| sdk_truncate | truncate unlocks twice; the second unlock lets a writer in beside a reader, whose close then unregisters the writer's lock (3 threads, 3 opens) |

`ListedChildMatches`, `LockOpsKeepContent` and `GrantRespectsLock` hold when
requests do not overlap, and they speak of logs without an entry that trips the
assertion (`Healthy`): namenode_assert and namenode_lock_refresh show what
happens otherwise.

Other disagreements the models reach, each with a comment of the code that says
otherwise, without a run of their own: rm does not mark a file invalid in its
aggregate (`rocksdb.cpp:199`); a put_ok that is applied after
its file was replaced by a directory overwrites the listing (`inode.h:35`); files of an aggregate never become FINISHED (`sdk.cpp:392`); a
consumer exits with tasks queued, or sleeps for ever, after stop
(`daemon_upload.cpp:170`); uploaded files are still served locally
(`daemon_download.cpp:35`); the give-up test is skipped once check(succ) holds, so
with all datanodes down the loop is endless (`sdk.cpp:501`), which is why
`UploadEnds` assumes one that stays up; `datanode_put` keeps fail_count when it
gives up a block, and then gives up the next one, saying "all failed", although the
datanode has just accepted a shard of it (`data_retrive.hpp:190`; TLC finds it with
`PerBlock = FALSE`, one datanode, RS<2,1>, two blocks and one fault), which is why
shard_rounds and `GivesUp` are about `encode_one_block`.

## 4. Fairness

- NamenodeSnapshot (and with it Namenode): handlers run on, committed entries are applied, a namenode that is
  down is started again (docker restarts it), and elections succeed. Requests,
  crashes, snapshots and time are not fair.
- NamenodeElection: elections succeed while a majority is up, callbacks and
  timers run. Restarts are not fair: a machine may stay away. Timers fire at any time,
  but hasty ones, which fire while a machine that is up has not applied the last list,
  only finitely often (`MaxHasty`): a new timer waits NN_INTERVAL (10 s) and then scans a
  namenode four times before it calls on_nodes_loss, so that as a rule a list is applied
  first; a timer that was left behind may be in the middle of its scans, and there is one
  at most per list. This is an assumption on timing, the code checks nothing of the kind:
  with a hasty timer for every list it would propose lists for ever.
- DaemonUpload: each thread that can take a step takes one, the timer's interval
  passes, and a `FsyncPush` whose mutex stays free gets it. That calls succeed is not
  assumed.
- ShardUpload: the loop goes on. Datanodes owe nothing.
- SDKFiles: a thread inside a call goes on. An open that waits for its lock is weakly
  fair: glibc prefers readers, so this is enough only because the number of opens is
  finite. Closes, the timer, the slave and other clients owe nothing.
- ExtendibleHashTable: a call that holds the latch goes on.

## 5. Proofs

Every safety property that a passing run checks is a theorem, for every value of
the constants; three of them (`ListingsMatch`, `LocksKeepContent`, `GrantsExclude`)
for requests one after the other, which is what the properties are about. Each
module of proofs has one inductive invariant (`IInv`; `SInv` with snapshots,
`SerialInv` for requests one after the other), checked by TLC on small instances
before it was proved, and one lemma per action; the properties follow from it.

The proofs rest on the assumptions named in the modules, which say what the
configuration gives the program: the tree of paths (`NamespaceAssumption`,
`NamenodeAssumption`), a list of machines without repetitions and a positive
number of namenodes (`ElectionAssumption`) or of datanodes (`ShardAssumption`),
storage types with at least one data shard, room for at least one block in a
file (`FilesAssumption`), finitely many tasks
(`DaemonAssumption`), a hash of finite width; and that names used as markers
(`NoTask`, `Gone`, `NoLeader`, `NotFound`) are none of the things they mark.
Bounds such as `MaxFaults` are arbitrary numbers there.

**`NamenodeProofs`**: `TypeCorrect`, `NoDuplicates`, `NoDanglingEntries`,
`MkdirIsSafe`. None of the properties is inductive: an inode is read from one store, waits in
a handler, goes through the log and ends in other stores, among them one that is
being replayed and is older or newer. `IInv` says of every inode, wherever it is,
that its `sub` has no duplicates (`CleanInode`) and lists only paths recorded in
the store it goes to. The comparison is made through `Rec(d)`, the set of recorded
paths: records are never deleted (rm marks them invalid), and which ones an entry
adds does not depend on the store (`ApplyEntry`), so

    Rec(hist[applied[n] + 1]) ⊆ Rec(db[n]) ⊆ Rec(hist[Len(hist)])

is preserved by applying, crashing and replaying, and what a handler read from any
replica is recorded in the newest store, to which its entry is appended. For mkdir
the same argument keeps the parent recorded, which is all the assertion asks for.

**`NamenodeReplicaProofs`**: `CaughtUp`, replaying is harmless. A store is a set of
cells: is there a record, the fields of the inode, how often a name is in its
`sub`, the aggregates. What an entry does to a cell is to set it to a value that
does not depend on the store, or to keep it (`SetsOrKeeps`). So each cell of a
replica that replays is that of some store of the history at least as new as what
was replayed (`NewEnough`), and at the end of the log there is only one. The
argument needs the parents of replayed entries to be recorded, which the
assertion of `get_parent_inode` ensures.

Its second part proves `ListingsMatch`, `LocksKeepContent` and `GrantsExclude` under
the hypothesis `Serial`: one handler and no faults, with any number of namenodes that
lag as they like and requests that reach a namenode before the first election. With
two handlers they do not hold (namenode_lock_refresh shows it of one). `SerialInv`
says, as long as no entry trips the assertion, that

- every namenode holds exactly the store of the entries it has applied (`ExactInv`);
- the leader is behind only in entries that a handler still waits for: once it has
  applied those, the stores of the history from there on are alike (`LeaderInv`);
- what a handler of the leader holds fits the newest store, not only the one it read
  (`FitInv`): what mkdir makes is not there, what put writes back has the `sub` that is
  stored, what put_ok completes is a file;
- the stores of the history are trees (`TreeOK`), and putting keeps every `sub`
  (`ContentInv`).

`FittingEntry` is the lemma about the operators: an entry that fits makes a tree of a
tree. update_lock makes this delicate: with several paths it is answered
when the first entry is applied, so the next request may read a store that is still
behind. "Alike" therefore means equal up to deadlines. Listings and content need no
more; `GrantsExclude` has the hypothesis `OnePathRefresh`, that every update_lock is for
one path, since otherwise a put can be granted on a deadline that has already been
moved in the log.

**`NamenodeSnapshotProofs`**: the same with snapshots (`SnapshotCaughtUp`,
`SnapshotTypeCorrect`, `SnapshotNoDanglingEntries`). A start takes the newest backup and the index of
the last snapshot that was completed, which need not belong together. The
invariant adds that a backup is never older than that index (`BackupInv`).
`CrashLosesNothing` is about what a crash leaves behind: `Replay`, a recursive function
over the indexes of the log, applied to the newest backup gives the store of the log.
The induction is made through the smallest index at which the claim would fail
(`SmallestIndex`); a store on the way is new enough for its index (`RunsStartable`), by
the same lemma that proves the step of a running namenode.

**`NamenodeElectionProofs`**: `TypeCorrect`, `ListsSized`, `NamenodeMatches`. A list
is carried from the scan to the proposal, the log, the machines and their
snapshots; `SizeInv` speaks of it in all these places, and `MatchInv` says that a
snapshot's list is the log's at its index and that a machine that is down runs no
namenode.

**`DaemonUploadProofs`**: `TypeCorrect`, `OnePlace`, `RemovedStays`, `NoClash`,
`DownloadsFind`. Of the six places a task can be in (two queues, two aggregates,
the big-file thread's hands, fsync's hands) it is in exactly one while it is under
way, and no sequence holds it twice (`OnePlaceInv`, `NoDupInv`); every step that moves
tasks is an instance of `MoveInv` or `EndInv`. With a path for every task, a path is
then written to only by the thread that has its task: it is not locked before the
upload begins and exists until it ends, if nobody calls rm and no call fails (`ClashInv`); and a task
is FINISHED only when it is in no place any more, so that nothing recreates a path
whose rm waited for FINISHED (`RemoveInv`). Downloads rest on `MapInv`: the maps keep
every accepted path, and only rm cancels. The proof shows more than
`DownloadsFindUploads` asks for: without an rm, an accepted file is served from its
local copy for ever, also after it was uploaded. `DaemonIsPool`, `Spec => Pool!Spec`, is
the refinement of `UploadPool`: put is `Accept`, the three threads' takes are `Take`,
put_ok is `Store` and the end of an upload `Finish`, both at once for an aggregate; all
other steps, fsync among them, are stuttering steps. It needs `OnePlaceInv` for the
takes, and `StoredInv`, that what is stored is done or about to be, for "at most once".
It holds for aggregates of any number of files, while the run has one file in each.

**`ShardUploadProofs`**: `TypeCorrect`, `ReadGenuine`, `Tolerance`, `Complete`, and
`GivesUp` for `encode_one_block` only. Shards are sent in order and once
(`SentInv`, `FreshInv`); while a block needs one round only, the rotation gives each
of its shards a datanode of its own (`PlaceInv`). A fault spoils one datanode at most, so
datanodes that are spoiled or were missed by the download are no more than the
faults (`FaultInv`); a block that could not be decoded has missed more of them than
there are shards to spare. `ReadGenuine`, that a block is read as itself or not at all, is
proved only.

**`SDKFilesProofs`**: `TypeCorrect`, `Exclusion`, `WritersRefreshed`, `FirstSave`,
`CachedCurrent`, `ClosedFree`. `LockInv` ties the state of the shared mutex to the
threads inside: as long as no close left the lock held (`kept`), the writer and the count
of readers are exactly those that have the file open; a lock that was left held is a
writer's, with nobody inside and nobody able to enter.
From it a writer is alone, so only its own writes come between its open and its
first save (`WroteInv`, `LinkInv`), and what is cached when no writer is inside is what
the last save gave the namenode, if none was refused (`CleanInv`, `InodeInv`,
`CurrentInv`). `ClosedFree` has the hypothesis that nobody calls truncate. About SDKTruncate
nothing is proved: its run shows that exclusion fails there.

**`ExtendibleHashTableProofs`**: `TypeCorrect`, `DirectoryShares`, `PairsAreFound`, and the
refinement `TableIsMap`, `Spec => Map!Spec`. The three invariants are inductive
together, with the buckets finite. The work is in `SplitDir`, which says in one
formula what resizing, redistributing and filling the directory make of it.

Left to TLC:

- liveness (`EveryRequestAnswered`, `ReplicasConverge`, `NamenodesRecover`,
  `UploadsComplete`, `UploadEnds`, `OpensReturn`, `CallsReturn`), which the prover
  does not handle.

## 6. Not modelled

Contents and sizes of files, path strings, storage type strings, logging; the byte
ranges of aggregated files and the offsets inside a block; snapshots a namenode
installs from the leader; SDK::create; an empty put_batch and local files that cannot
be opened; `ConnecttionPool` (a map of channels behind one mutex), the search for a
node that is online in fuse.cpp and sdk.cpp, and the command line (one call per
command). Memory errors are outside the models: a response written after it was sent,
the vector read by a timer while it is assigned, an SDK deleted by fuse.cpp under
other threads or under its own timer. In SDKFiles a thread has one session at a time
(its close may run on any thread), and a call that is refused changes nothing at the
namenode. braft is one
committed log per group: its own protocol, and entries lost by reset_peers, are
outside.

## 7. Plan

Done: Namespace, Namenode, NamenodeSnapshot, NamenodeElection, DaemonUpload with
downloads and UploadPool, ShardUpload, SDKFiles and ExtendibleHashTable with
KeyValueMap, each with its proofs.

Next, modelling: the lease of SDKFiles composed with the namenode's locks of
Namespace: put_ok of fsync releases it in mid-session until the next refresh.

Next, proving: that every majority of a group made by change_peers has a member of
the group before it.
