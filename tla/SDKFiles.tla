------------------------------ MODULE SDKFiles ------------------------------
(***************************************************************************)
(* Files opened through the SDK (client/sdk.cpp: open, close, read_data,   *)
(* write_data, fsync, the lock refresh), with PathLocks                    *)
(* (common/pathlocks.cpp) and the way fuse.cpp calls it.  What truncate    *)
(* and O_TRUNC add is in module SDKTruncate.                               *)
(*                                                                         *)
(* Threads open one path.  A path lock admits one writer or many readers;  *)
(* a writer also registers the path in remoteLocks, which a timer refreshes*)
(* at the namenode.  Blocks are kept in files on the local disk: a read    *)
(* fills one from the datanodes, a write extends one and links it into the *)
(* directory "write", and fsync uploads what is linked there.  The inode   *)
(* fetched by open is cached until a close.                                *)
(*                                                                         *)
(* A block is the sequence of the pieces written into it; an entry of sub, *)
(* the shards' hashes in the code, is the block itself.  An empty local    *)
(* file counts as no file, as it does in read_data.  The master namenode   *)
(* answers update_lock and put_ok, the slave, which follows it, answers    *)
(* ls.  A call of the master is refused when the path is gone and, at any  *)
(* time, when that namenode does not lead (check_leader).                  *)
(*                                                                         *)
(* A thread has one session at a time.  libfuse may call release on any    *)
(* thread, which matters for the path lock alone: see UnlockPath.  A step  *)
(* takes one mutex or makes one remote call.                               *)
(***************************************************************************)
EXTENDS Integers, Sequences, FiniteSetsExt

CONSTANTS
  Threads,
  Nobody,        \* no thread
  NoInode,       \* the path is not in local_inode_cache
  Gone,          \* the path is not at the namenode
  Size,          \* bound: the blocks of the file
  Modes,         \* how threads open the file; truncate is an open as well
  WithOthers,    \* whether another client saves the file
  MaxOpens,      \* bound: calls of open and truncate
  MaxWrites,     \* bound: calls of write_data
  MaxRefreshes   \* bound: runs of the timer's function

Indexes == 1..Size

ASSUME FilesAssumption ==
  /\ Nobody \notin Threads /\ WithOthers \in BOOLEAN
  /\ Modes \subseteq {"read", "write", "O_TRUNC", "truncate"}
  /\ {Size, MaxOpens, MaxWrites, MaxRefreshes} \subseteq Nat /\ Size > 0

\* A removed path is told from every list of entries.
ASSUME GoneAssumption == Gone \notin Seq(Seq(Nat))

VARIABLES
  rw,            \* the path's std::shared_mutex: [writer, readers, wphase]
  ilock,         \* ilock[i]: who holds the lock of block i's file
  remoteLocks,   \* whether the path is in remoteLocks
  inode,         \* the path's entry in local_inode_cache: its sub, or NoInode
  cached,        \* cached[i]: the local file of block i
  linked,        \* the directory "write": a function from block numbers to contents
  master,        \* sub at the master namenode, or Gone
  slave,         \* the same at the slave
  at,            \* at[t]: where t is, see Out
  timer,         \* the refresh: [step, paths, retryCount]
  dead,          \* the process was terminated, or fuse.cpp replaced the SDK
  outdated,      \* history: an open or a save used an inode older than the
                 \* master's, or another client saved the file
  refused,       \* history: the namenode refused a put_ok
  kept,          \* history: a close left the path lock held, because its put_ok was
                 \* refused or because it ran in another thread than the writer's open
  opens, writes, refreshes

vars == <<rw, ilock, remoteLocks, inode, cached, linked, master, slave, at, timer, dead, outdated,
          refused, kept, opens, writes, refreshes>>

\* What belongs to the locks, to the files, to the namenodes and to the timer.
locks == <<rw, ilock, remoteLocks>>
files == <<inode, cached, linked>>
namenodes == <<master, slave>>
history == <<outdated, refused, kept>>
rest == <<timer, dead, history, opens, writes, refreshes>>

Truncating == {"O_TRUNC", "truncate"}

\* A thread: step, the mode it opened the file with, whether it is in close,
\* where it goes after unlock, the block it reads, its copy of an inode, the
\* blocks whose files it will remove, the pieces it wrote in this session,
\* whether the session has called put_ok and whether its open went through.
Out == [step |-> "out", mode |-> "read", closing |-> FALSE, back |-> "out", index |-> 0,
        sub |-> << >>, stale |-> {}, wrote |-> {}, saved |-> FALSE, opened |-> FALSE]

Go(t, step) == at' = [at EXCEPT ![t].step = step]
Running == ~dead

\* Mutant of Caught: the error is returned, so that nobody closes the file.
CaughtReturned(t) == at' = [at EXCEPT ![t] = Out]

\* After an exception in open: fuse.cpp prints it and returns, so that the
\* file counts as open and is closed later; truncate is over.
Caught(t) == IF at[t].mode = "truncate" THEN at' = [at EXCEPT ![t] = Out] ELSE Go(t, "in")

-----------------------------------------------------------------------------
(* std::shared_mutex, as pthread_rwlock_t implements it                    *)

\* A writer is admitted when nobody holds the lock; after a writer, the lock
\* stays in its write phase, in which the readers are not counted.
CanLock == rw.writer = Nobody /\ (rw.wphase \/ rw.readers = 0)
CanLockShared == rw.writer = Nobody

Locked(t) == [rw EXCEPT !.writer = t, !.wphase = TRUE]
LockedShared == [rw EXCEPT !.readers = @ + 1, !.wphase = FALSE]

\* unlock and unlock_shared are the same call: it releases the writer's lock
\* when the caller is the writer, and one reader's otherwise, held or not.
\* PathLocks::unlock picks one of the two by who used the path first, which
\* therefore has no effect.
Unlocked(t) ==
  IF rw.writer = t THEN [rw EXCEPT !.writer = Nobody, !.wphase = rw.readers = 0]
  ELSE [rw EXCEPT !.readers = @ - 1,
                  !.wphase = @ \/ (rw.readers = 1 /\ rw.writer # Nobody)]

-----------------------------------------------------------------------------
(* open                                                                    *)

Open(t, mode) ==
  /\ Running /\ at[t].step = "out" /\ opens < MaxOpens
  /\ at' = [at EXCEPT ![t] = [Out EXCEPT !.step = "lock", !.mode = mode]]
  /\ opens' = opens + 1
  /\ UNCHANGED <<locks, files, namenodes, timer, dead, history, writes, refreshes>>

ReadLock(t) ==
  /\ Running /\ at[t].step = "lock" /\ at[t].mode = "read"
  /\ CanLockShared
  /\ rw' = LockedShared
  /\ Go(t, "update_inode")
  /\ UNCHANGED <<ilock, remoteLocks, files, namenodes, rest>>

WriteLock(t) ==
  /\ Running /\ at[t].step = "lock" /\ at[t].mode # "read"
  /\ CanLock
  /\ rw' = Locked(t)
  /\ Go(t, "lock_remote")
  /\ UNCHANGED <<ilock, remoteLocks, files, namenodes, rest>>

\* _lock_remote: update_lock at the namenode, which asks for no owner, or its
\* refusal.
LockRemote(t) ==
  /\ Running /\ at[t].step = "lock_remote"
  /\ \/ master # Gone /\ Go(t, "register")
     \/ Caught(t)
  /\ UNCHANGED <<locks, files, namenodes, rest>>

\* The rest of lock_remote, and the directory "write" emptied.
Register(t) ==
  /\ Running /\ at[t].step = "register"
  /\ remoteLocks' = TRUE
  /\ linked' = << >>
  /\ Go(t, "update_inode")
  /\ UNCHANGED <<rw, ilock, inode, cached, namenodes, rest>>

\* The blocks of the local inode that differ from, or lie beyond, the remote's.
Stale(local, now) == {i \in DOMAIN local : i > Len(now) \/ local[i] # now[i]}

\* update_inode: reading local_inode_cache makes an empty entry where there
\* is none; then the slave is asked, which may lag behind the master.
UpdateInode(t) ==
  LET local == IF inode = NoInode THEN << >> ELSE inode IN
  /\ Running /\ at[t].step = "update_inode"
  /\ inode' = local
  /\ IF slave = Gone THEN Caught(t)
     ELSE at' = [at EXCEPT ![t].step = "store_inode", ![t].sub = slave, ![t].stale = Stale(local, slave)]
  /\ outdated' = (outdated \/ slave # master)
  /\ UNCHANGED <<locks, cached, linked, namenodes, timer, dead, refused, kept, opens, writes, refreshes>>

\* The files are removed without their locks.
StoreInode(t) ==
  /\ Running /\ at[t].step = "store_inode"
  /\ cached' = [i \in Indexes |-> IF i \in at[t].stale THEN << >> ELSE cached[i]]
  /\ inode' = at[t].sub
  /\ at' = [at EXCEPT ![t].step = IF at[t].mode \in Truncating THEN "_truncate" ELSE "in",
                      ![t].sub = << >>, ![t].stale = {}, ![t].opened = TRUE]
  /\ UNCHANGED <<locks, linked, namenodes, rest>>

-----------------------------------------------------------------------------
(* read_data and write_data                                                *)

\* A block whose local file has content is read from there, which changes
\* nothing; otherwise the thread waits for the lock of that file.
ReadBegin(t, i) ==
  /\ Running /\ at[t].step = "in" /\ inode # NoInode
  /\ i \in DOMAIN inode /\ cached[i] = << >>
  /\ at' = [at EXCEPT ![t].step = "block_lock", ![t].index = i, ![t].sub = inode]
  /\ UNCHANGED <<locks, files, namenodes, rest>>

BlockLock(t) ==
  /\ Running /\ at[t].step = "block_lock" /\ ilock[at[t].index] = Nobody
  /\ ilock' = [ilock EXCEPT ![at[t].index] = t]
  /\ Go(t, "fill")
  /\ UNCHANGED <<rw, remoteLocks, files, namenodes, rest>>

\* The file may have been filled meanwhile.  decode_one_block returns ""
\* when it cannot get enough shards.  A block that is linked is one file with
\* its link.
ReadFill(t) ==
  LET i == at[t].index IN
  /\ Running /\ at[t].step = "fill"
  /\ \/ cached[i] # << >> /\ UNCHANGED <<cached, linked>>
     \/ /\ cached[i] = << >>
        /\ \E block \in {at[t].sub[i], << >>} :
             /\ cached' = [cached EXCEPT ![i] = block]
             /\ linked' = [j \in DOMAIN linked |-> IF j = i THEN block ELSE linked[j]]
  /\ ilock' = [ilock EXCEPT ![i] = Nobody]
  /\ at' = [at EXCEPT ![t].step = "in", ![t].index = 0, ![t].sub = << >>]
  /\ UNCHANGED <<rw, remoteLocks, inode, namenodes, rest>>

\* The blocks write_data opens for a write into block i: the file is opened
\* with ios::app, which makes it when there is none, and linked anew.  A
\* write that ends where block i ends also opens the next one, for no bytes.
Touched(i, toEnd) == IF toEnd THEN {i, i + 1} \cap Indexes ELSE {i}

\* A write at an offset inside an existing block reads the block first: that
\* is a read before this step.  A write at the block's start does not.
WriteData(t, i, toEnd) ==
  /\ Running /\ at[t].step = "in" /\ at[t].mode # "read" /\ inode # NoInode
  /\ writes < MaxWrites
  /\ cached' = [cached EXCEPT ![i] = Append(@, writes + 1)]
  /\ linked' = [j \in DOMAIN linked \cup Touched(i, toEnd) |->
                  IF j \in Touched(i, toEnd) THEN cached'[j] ELSE linked[j]]
  /\ at' = [at EXCEPT ![t].wrote = @ \cup {<<i, writes + 1>>}]
  /\ writes' = writes + 1
  /\ UNCHANGED <<locks, inode, namenodes, timer, dead, history, opens, refreshes>>

-----------------------------------------------------------------------------
(* fsync and close                                                         *)

\* Mutant of SavedSub: sub is not resized to the blocks written.
SavedNoResize == [i \in DOMAIN inode |-> IF i \in DOMAIN linked THEN linked[i] ELSE inode[i]]

\* The entries fsync sends: those of the inode, resized, with the linked
\* blocks in their places.
SavedSub ==
  [i \in 1..Max({Len(inode)} \cup DOMAIN linked) |->
     IF i \in DOMAIN linked THEN linked[i]
     ELSE IF i <= Len(inode) THEN inode[i] ELSE << >>]

\* Mutant of Save: close does not save.
SaveNotOnClose(t, closing) ==
  /\ Running /\ at[t].step = "in"
  /\ \/ closing
        /\ at' = [at EXCEPT ![t].step = "erase", ![t].closing = TRUE]
     \/ DOMAIN linked # {} /\ inode # NoInode /\ ~closing
        /\ at' = [at EXCEPT ![t].step = "put_ok", ![t].sub = SavedSub]
  /\ linked' = << >>
  /\ UNCHANGED <<locks, inode, cached, namenodes, rest>>

\* Mutant of Save: a close with nothing to save returns at once.
SaveReturnsEarly(t, closing) ==
  /\ Running /\ at[t].step = "in"
  /\ \/ DOMAIN linked = {} /\ closing
        /\ at' = [at EXCEPT ![t] = Out]
     \/ DOMAIN linked # {} /\ inode # NoInode
        /\ at' = [at EXCEPT ![t].step = "put_ok", ![t].closing = closing, ![t].sub = SavedSub]
  /\ linked' = << >>
  /\ UNCHANGED <<locks, inode, cached, namenodes, rest>>

\* fsync up to put_ok: the links are removed as the blocks are uploaded.
Save(t, closing) ==
  /\ Running /\ at[t].step = "in"
  /\ \/ DOMAIN linked = {} /\ closing
        /\ at' = [at EXCEPT ![t].step = "erase", ![t].closing = TRUE]
     \/ DOMAIN linked # {} /\ inode # NoInode
        /\ at' = [at EXCEPT ![t].step = "put_ok", ![t].closing = closing, ![t].sub = SavedSub]
  /\ linked' = << >>
  /\ UNCHANGED <<locks, inode, cached, namenodes, rest>>

\* Mutant of PutOk: fsync unlocks, as _truncate does.
PutOkUnlocks(t) ==
  /\ Running /\ at[t].step = "put_ok" /\ master # Gone
  /\ master' = at[t].sub
  /\ rw' = Unlocked(t)
  /\ at' = [at EXCEPT ![t].step = IF at[t].closing THEN "erase" ELSE "in", ![t].sub = << >>]
  /\ UNCHANGED <<ilock, remoteLocks, files, slave, rest>>

\* Mutant of PutOk: the path is taken for unlocked, as it is at the namenode.
PutOkUnregisters(t) ==
  /\ Running /\ at[t].step = "put_ok" /\ master # Gone
  /\ master' = at[t].sub
  /\ remoteLocks' = FALSE
  /\ at' = [at EXCEPT ![t].step = IF at[t].closing THEN "erase" ELSE "in", ![t].sub = << >>]
  /\ UNCHANGED <<rw, ilock, files, slave, rest>>

\* put_ok.  local_inode_cache keeps the inode of the open.  When it is refused,
\* the links are removed already; close ends here and its locks stay.
PutOk(t) ==
  /\ Running /\ at[t].step = "put_ok"
  /\ \/ /\ master # Gone
        /\ master' = at[t].sub
        /\ outdated' = (outdated \/ at[t].saved)
        /\ at' = [at EXCEPT ![t].step = IF at[t].closing THEN "erase" ELSE "in",
                            ![t].sub = << >>, ![t].saved = TRUE]
        /\ UNCHANGED <<refused, kept>>
     \/ /\ refused' = TRUE
        /\ kept' = (kept \/ at[t].closing)
        /\ at' = [at EXCEPT ![t] = IF @.closing THEN Out
                               ELSE [@ EXCEPT !.step = "in", !.sub = << >>, !.saved = TRUE]]
        /\ UNCHANGED <<master, outdated>>
  /\ UNCHANGED <<locks, files, slave, timer, dead, opens, writes, refreshes>>

Erase(t) ==
  /\ Running /\ at[t].step = "erase"
  /\ inode' = NoInode
  /\ Go(t, "unlock")
  /\ UNCHANGED <<locks, cached, linked, namenodes, rest>>

\* unlock: a reader removes the path from remoteLocks as well.
UnlockRemote(t) ==
  /\ Running /\ at[t].step = "unlock"
  /\ remoteLocks' = FALSE
  /\ Go(t, "unlock_path")
  /\ UNCHANGED <<rw, ilock, files, namenodes, rest>>

\* A close may run in another thread than the open did.
UnlockPath(t) ==
  /\ Running /\ at[t].step = "unlock_path"
  /\ \E u \in IF at[t].closing THEN Threads ELSE {t} :
       /\ rw' = Unlocked(u)
       /\ kept' = (kept \/ (u # t /\ rw.writer = t))
  /\ at' = [at EXCEPT ![t] = IF @.back = "out" THEN Out ELSE [@ EXCEPT !.step = at[t].back, !.back = "out"]]
  /\ UNCHANGED <<ilock, remoteLocks, files, namenodes, timer, dead, outdated, refused, opens,
                 writes, refreshes>>

\* An exception that is no MessageException: no inode in the cache, because
\* another thread has closed the file or this one's open failed; a thread that
\* waits for a lock it holds itself (EDEADLK); a namenode that does not answer.
\* fuse.cpp then deletes the SDK and makes a new one, which ends the life of
\* this one.
Reinit(t) ==
  /\ Running
  /\ \/ at[t].step = "in" /\ inode = NoInode
     \/ at[t].step = "_truncate" /\ inode # << >>
     \/ at[t].step = "lock" /\ rw.writer = t
     \/ at[t].step \in {"lock_remote", "update_inode", "put_ok"}
  /\ dead' = TRUE
  /\ UNCHANGED <<locks, files, namenodes, at, timer, history, opens, writes, refreshes>>

-----------------------------------------------------------------------------
(* The refresh of the locks, by the IntervalTimer's thread                 *)

\* The timer between two runs of its function.
Idle == [step |-> "wait", paths |-> FALSE, retryCount |-> 0]

RefreshBegin ==
  /\ Running /\ timer.step = "wait" /\ remoteLocks /\ refreshes < MaxRefreshes
  /\ timer' = [timer EXCEPT !.step = "paths"]
  /\ refreshes' = refreshes + 1
  /\ UNCHANGED <<locks, files, namenodes, at, dead, history, opens, writes>>

RefreshPaths ==
  /\ Running /\ timer.step = "paths"
  /\ timer' = [timer EXCEPT !.step = "call", !.paths = remoteLocks]
  /\ UNCHANGED <<locks, files, namenodes, at, dead, history, opens, writes, refreshes>>

\* Mutant of RefreshCall: the fourth failure is retried as well.
RefreshCallMore ==
  /\ Running /\ timer.step = "call"
  /\ \/ timer.paths /\ master # Gone /\ timer' = Idle
     \/ timer' = [timer EXCEPT !.step = "paths", !.paths = FALSE, !.retryCount = @ + 1]
  /\ UNCHANGED <<locks, files, namenodes, at, dead, history, opens, writes, refreshes>>

\* The namenode refuses an empty list and a missing path, and may not lead or
\* not answer.  The fourth failure throws TimeoutException, for which timeoutFunc
\* throws out of the thread.
RefreshCall ==
  /\ Running /\ timer.step = "call"
  /\ \/ /\ timer.paths /\ master # Gone
        /\ timer' = Idle /\ UNCHANGED dead
     \/ /\ timer.retryCount < 3
        /\ timer' = [timer EXCEPT !.step = "paths", !.paths = FALSE, !.retryCount = @ + 1]
        /\ UNCHANGED dead
     \/ timer.retryCount >= 3 /\ dead' = TRUE /\ UNCHANGED timer
  /\ UNCHANGED <<locks, files, namenodes, at, history, opens, writes, refreshes>>

-----------------------------------------------------------------------------
(* The namenodes and the other clients                                     *)

\* Another client removes the file.
Remove ==
  /\ Running /\ WithOthers /\ master # Gone
  /\ master' = Gone
  /\ UNCHANGED <<locks, files, slave, at, rest>>

\* Another client saves block i: put_ok asks for no lock.
OtherSaves(i) ==
  /\ Running /\ WithOthers /\ master # Gone /\ i \in DOMAIN master /\ writes < MaxWrites
  /\ master' = [master EXCEPT ![i] = <<writes + 1>>]
  /\ writes' = writes + 1
  /\ outdated' = TRUE
  /\ UNCHANGED <<locks, files, slave, at, timer, dead, refused, kept, opens, refreshes>>

\* The slave applies what the master has.
Replicate ==
  /\ Running /\ slave # master
  /\ slave' = master
  /\ UNCHANGED <<locks, files, master, at, rest>>

-----------------------------------------------------------------------------
Init ==
  /\ rw = [writer |-> Nobody, readers |-> 0, wphase |-> FALSE]
  /\ ilock = [i \in Indexes |-> Nobody]
  /\ remoteLocks = FALSE
  /\ inode = NoInode
  /\ cached = [i \in Indexes |-> << >>]
  /\ linked = << >>
  /\ master = <<<<0>>>>   \* a file of one block
  /\ slave = master
  /\ at = [t \in Threads |-> Out]
  /\ timer = Idle
  /\ dead = FALSE /\ outdated = FALSE /\ refused = FALSE /\ kept = FALSE
  /\ opens = 0 /\ writes = 0 /\ refreshes = 0

\* A thread inside a call goes on.
Continue(t) ==
  \/ ReadLock(t) \/ WriteLock(t) \/ LockRemote(t) \/ Register(t)
  \/ UpdateInode(t) \/ StoreInode(t) \/ BlockLock(t) \/ ReadFill(t)
  \/ PutOk(t) \/ Erase(t) \/ UnlockRemote(t) \/ UnlockPath(t)

Close(t) == Save(t, TRUE)
Fsync(t) == Save(t, FALSE)

Step(t) ==
  \/ \E mode \in Modes : Open(t, mode)
  \/ Continue(t)
  \/ \E i \in Indexes : ReadBegin(t, i) \/ \E toEnd \in BOOLEAN : WriteData(t, i, toEnd)
  \/ Close(t) \/ Fsync(t) \/ Reinit(t)

Environment == Remove \/ Replicate \/ \E i \in Indexes : OtherSaves(i)

Next == (\E t \in Threads : Step(t)) \/ RefreshBegin \/ RefreshPaths \/ RefreshCall \/ Environment

Spec == Init /\ [][Next]_vars

\* Calls go on and come to an end.  Whether an open file is ever closed is up to
\* the programs that use it.
FairSpec == Spec /\ \A t \in Threads : WF_vars(Continue(t))

-----------------------------------------------------------------------------
(* Properties                                                              *)

Blocks == [Indexes -> Seq(0..MaxWrites)]
IsSub(sub) == DOMAIN sub \in {1..n : n \in 0..Size} /\ \A i \in DOMAIN sub : sub[i] \in Seq(0..MaxWrites)

\* The variables have their types.
TypeOK ==
  /\ rw \in [writer : Threads \cup {Nobody}, readers : Int, wphase : BOOLEAN]
  /\ ilock \in [Indexes -> Threads \cup {Nobody}] /\ remoteLocks \in BOOLEAN
  /\ inode = NoInode \/ IsSub(inode)
  /\ cached \in Blocks
  /\ DOMAIN linked \subseteq Indexes /\ \A i \in DOMAIN linked : linked[i] \in Seq(0..MaxWrites)
  /\ \A nn \in {master, slave} : nn = Gone \/ IsSub(nn)
  /\ \A t \in Threads :
       /\ at[t].mode \in Modes \cup {"read"} /\ {at[t].closing, at[t].saved, at[t].opened} \subseteq BOOLEAN
       /\ at[t].step \in {"out", "lock", "lock_remote", "register", "update_inode", "store_inode",
            "_truncate", "in", "block_lock", "fill", "put_ok", "erase", "unlock", "unlock_path"}
       /\ at[t].back \in {"out", "in", "unlock"} /\ at[t].index \in 0..Size
       /\ IsSub(at[t].sub) /\ at[t].stale \subseteq Indexes
       /\ at[t].wrote \subseteq Indexes \X (1..MaxWrites)
  /\ timer \in [step : {"wait", "paths", "call"}, paths : BOOLEAN, retryCount : 0..3]
  /\ {dead, outdated, refused, kept} \subseteq BOOLEAN
  /\ opens \in 0..MaxOpens /\ writes \in 0..MaxWrites /\ refreshes \in 0..MaxRefreshes

Inside(t) == at[t].step \notin {"out", "lock"}

\* A thread that has the file open for writing is alone with it: the two kinds
\* of unlock that PathLocks confuses, and the exceptions inside open, do not
\* let another thread in.
SessionsExclude ==
  \A t, u \in Threads : t # u /\ Inside(t) /\ Inside(u) => at[t].mode = "read" /\ at[u].mode = "read"

\* While a file is open for writing, its path is among those the timer
\* refreshes, although every close of a reader removes it.
WritersAreRefreshed ==
  \A t \in Threads :
    at[t].opened /\ at[t].mode = "write" /\ at[t].step # "unlock_path" => remoteLocks

\* The first save of a session, by fsync or by close, sends every piece the
\* session wrote, in the block it was written to.
FirstSaveIsComplete ==
  \A t \in Threads : at[t].step = "put_ok" /\ ~at[t].saved =>
    \A w \in at[t].wrote :
      w[1] \in DOMAIN at[t].sub /\ \E k \in DOMAIN at[t].sub[w[1]] : at[t].sub[w[1]][k] = w[2]

\* When nobody has the file open for writing, a local file that has content is
\* what the namenode has: what is written locally is saved before the lock is
\* released.  Excepted are the cases open does not notice (outdated), and a save
\* that was refused: its blocks stay in the local files and are never sent
\* again.
CachedBlocksCurrent ==
  master # Gone /\ ~outdated /\ ~refused /\ (\A t \in Threads : Inside(t) => at[t].mode = "read") =>
    \A i \in Indexes : cached[i] # << >> => i \in DOMAIN master /\ cached[i] = master[i]

\* When nobody has the file open, the path lock is free, whatever kinds of unlock
\* and exceptions inside open came before: only a close whose put_ok was
\* refused, or one of a writer that ran in another thread, leaves it held.
ClosedFileIsFree == ~kept /\ (\A t \in Threads : ~Inside(t)) => CanLock

\* An open waits for the path lock only as long as another thread has the file
\* open, unless a close left the lock held or the SDK came to its end: nobody
\* waits for somebody who waits in turn, and no release passes it by.
OpensReturn ==
  \A t \in Threads : at[t].step = "lock" ~>
    (at[t].step # "lock" \/ dead \/ kept \/ \E u \in Threads \ {t} : at[u].step = "in")
=============================================================================
